---- MODULE Spec2Model ----
(***************************************************************************)
(* Model of the codex_cli Python binding:                                  *)
(*   - MultiAgentWorkspace / AgentSession (multi_agent.py): the registry,  *)
(*     the registry lock, the per-agent locks, the histories, as a         *)
(*     multi-threaded state machine (specification Spec);                  *)
(*   - _ExperimentalJsonAggregator (client.py): add_line / as_result fed   *)
(*     by the stdout loop of CodexCLI.run (specification SpecAgg).         *)
(***************************************************************************)
EXTENDS Integers, Sequences, FiniteSets, TLC

(***************************************************************************)
(* Bounds of the model                                                     *)
(***************************************************************************)
\* total number of workspace calls (register_agent, run) issued
MaxCalls == 4
\* largest timestamp the wall clock reaches
MaxClock == 0
\* largest timestamp the wall clock reaches while histories are read
MaxStamp == 1
\* number of lines the child process writes to its standard output
MaxLines == 3
\* number of lines the serve loop reads from its input stream
MaxRequests == 2
\* calls of register_agent and run made under the fair specification
MaxLiveCalls == 3
\* calls of CodexCLI.run made one after the other on one client
MaxRuns == 2
\* calls made to the module-level functions of codex_cli
MaxOps == 5

\* the threads calling into one workspace
Threads == {"t1", "t2"}
NoSession == 0
NoThread == "none"
\* no invocation
NoInv == <<0, 0>>

Names == {"alice", "bob"}
\* contents of the CodexRunResult objects the process invoker may return
ResultVals == {"clean"}

(***************************************************************************)
(* Paths: a path is the sequence of its components below "/"               *)
(***************************************************************************)
ProjectRoot == <<"proj">>
\* the one symbolic link of the modelled file system: /proj/lnk -> /out
SymlinkAt == <<"proj", "lnk">>
SymlinkTo == <<"out">>
NoPath == [abs |-> FALSE, parts |-> <<"<none>">>]
Rel(parts) == [abs |-> FALSE, parts |-> parts]
Abs(parts) == [abs |-> TRUE, parts |-> parts]
\* the (relative_path, create_missing) arguments tried
RegisterArgs ==
    { <<NoPath, FALSE>>,
      <<Rel(<<"team">>), TRUE>>,
      <<Rel(<<"..", "proj", "team">>), TRUE>>,
      <<Rel(<<"..", "outside">>), TRUE>>,
      <<Rel(<<"lnk">>), TRUE>>,
      <<Abs(<<"etc">>), TRUE>> }

\* pathlib: root / Path(rel) (an absolute right operand replaces the left)
JoinPath(base, rel) == IF rel.abs THEN rel.parts ELSE base \o rel.parts

Parent(p) == IF p = <<>> THEN <<>> ELSE SubSeq(p, 1, Len(p) - 1)

\* Path.resolve(): walk the components, ".." goes to the parent, a symbolic
\* link is replaced by its target
RECURSIVE ResolveFrom(_, _)
ResolveFrom(cur, rest) ==
    IF rest = <<>> THEN cur
    ELSE LET c == Head(rest)
             step == IF c = ".." THEN Parent(cur) ELSE Append(cur, c)
             real == IF step = SymlinkAt THEN SymlinkTo ELSE step
         IN ResolveFrom(real, Tail(rest))

Resolve(p) == ResolveFrom(<<>>, p)

\* candidate.parents
Parents(p) == { SubSeq(p, 1, k) : k \in 0..(Len(p) - 1) }

\* self._project_root in (candidate, *candidate.parents)
WithinRootEscapes(root, candidate) == TRUE
WithinRoot(root, candidate) == root \in ({candidate} \cup Parents(candidate))

\* mkdir(parents=True, exist_ok=True)
Mkdir(dirset, p) == dirset \cup {p} \cup (Parents(p) \ {<<>>})

(***************************************************************************)
(* State of the workspace                                                  *)
(***************************************************************************)
VARIABLES
    agents,     \* MultiAgentWorkspace._agents: name -> session id (NoSession: absent)
    regLock,    \* MultiAgentWorkspace._lock: the thread holding it, or NoThread
    sessName,   \* AgentSession._name of every session created, by session id
    sessWd,     \* AgentSession._working_directory
    sessHist,   \* AgentSession._history: sequence of AgentRun records
    agentLock,  \* AgentSession._lock: the thread holding it, or NoThread
    dirs,       \* directories existing in the file system
    clock,      \* last value read from the wall clock
    ncalls,     \* number of calls issued so far
    pc,         \* position of every thread
    arg,        \* arguments of the call a thread is executing
    loc,        \* local variables of the executing call
    invLog      \* per session, the invocations that took its lock, in that order:
                \* "pending", "returned" or "raised" (history variable)

wsVars == <<agents, regLock, sessName, sessWd, sessHist, agentLock, dirs, clock,
            ncalls, pc, arg, loc, invLog>>

\* State of the event aggregator (_ExperimentalJsonAggregator) and of the
\* stdout loop of CodexCLI.run feeding it
VARIABLES
    raw_lines,           \* _ExperimentalJsonAggregator.raw_lines
    events,              \* .events
    assistant_messages,  \* .assistant_messages
    reasoning,           \* .reasoning
    errors,              \* .errors
    thread_id,           \* .thread_id (NoThreadId: None)
    usage,               \* .usage (NoUsage: None)
    aggPc,               \* "reading", "raised" (add_line raised), "done" (as_result called)
    raised,              \* the exception add_line raised
    result,              \* the fields as_result copies into the CodexRunResult
    fed,                 \* the lines given to add_line so far (history variable)
    delivered,           \* the events the stdout loop passed to on_event
    failure,             \* message, stderr and stdout of the CodexRunError raised
    exitCode,            \* return_code of CodexCLI.run (NoExit: not waited for yet)
    built                \* the fields of the CodexRunResult as they were when
                         \* as_result built it (history variable)

aggVars == <<raw_lines, events, assistant_messages, reasoning, errors, thread_id,
             usage, aggPc, raised, result, fed, delivered, failure, exitCode,
             built>>

\* State of the serve loop of LocalProjectMCPServer
VARIABLES
    srvIn,    \* the lines read from input_stream so far (history variable)
    srvOut,   \* the responses written to output_stream, in order
    srvPc     \* "serving", "calling" (inside workspace.run) or "raised"

srvVars == <<srvIn, srvOut, srvPc>>

\* State of a CodexCLI client and of the call of CodexCLI.run in progress
VARIABLES
    cfg,       \* the arguments the client was constructed with (history variable)
    base_env,  \* CodexCLI._base_env
    call,      \* the keyword arguments of the call of run in progress
    queries,   \* the "login status" commands run so far: environment and outcome
    spawns,    \* the "exec" children spawned so far: argument vector,
               \* environment, and the call that spawned each
    formatted, \* what _format_config_overrides returned to the call in progress
    child,     \* the child of the call in progress: "none", "running", "exited"
    drainer,   \* the thread draining its standard error: "none", "running",
               \* "finished" (end of the stream reached), "joined"
    nruns      \* number of calls of run made so far

cliVars == <<cfg, base_env, call, queries, spawns, formatted, child, drainer, nruns>>

\* State of the module codex_cli: the shared default client and its callers
VARIABLES
    default_client,  \* codex_cli._default_client (NoClient: None)
    created,         \* number of clients get_client has constructed
    received,        \* the calls the client objects received: client,
                     \* operation and arguments, in order
    returned,        \* what the last module-level call returned to its caller
    nops             \* number of module-level calls made so far

modVars == <<default_client, created, received, returned, nops>>

vars == <<wsVars, aggVars, srvVars, cliVars, modVars>>

NoResult == [rid |-> NoInv, val |-> "<none>"]

\* cwd keyword argument not supplied by the caller
NoCwd == <<"<unset>">>
\* the keyword arguments other than cwd, as a set of (key, value) pairs
NoOptions == {}
\* the (prompt, cwd, other keyword arguments) tried
RunArgs == { <<"hello", NoCwd, NoOptions>>,
             <<"world", <<"elsewhere">>, {<<"model", "o3">>}>> }

NoArg == [op |-> "<none>", name |-> "", rel |-> NoPath, create |-> FALSE,
          prompt |-> "", cwd |-> NoCwd, opts |-> NoOptions]

\* agent_name = None
NoName == "<no name>"
\* a list object handed to a caller: the stored history list of session
\* alias itself, or (alias = NoSession) a list of its own holding items
NoList == [alias |-> NoSession, items |-> <<>>]

NoLoc == [sess |-> NoSession, inv |-> NoInv, wd |-> <<>>, cwd |-> NoCwd,
          opts |-> NoOptions, result |-> NoResult, status |-> "running",
          snap |-> <<>>, runs |-> <<>>, ret |-> NoList]

Sessions == 1..Len(sessName)

\* the lock guarding a session: each AgentSession creates its own
LockOfShared(s) == 1
LockOf(s) == s

WsInit ==
    /\ agents = [n \in Names |-> NoSession]
    /\ regLock = NoThread
    /\ sessName = <<>>
    /\ sessWd = <<>>
    /\ sessHist = <<>>
    /\ agentLock = <<>>
    /\ dirs = {ProjectRoot, SymlinkTo}
    /\ clock = 0
    /\ ncalls = 0
    /\ pc = [t \in Threads |-> "idle"]
    /\ arg = [t \in Threads |-> NoArg]
    /\ loc = [t \in Threads |-> NoLoc]
    /\ invLog = <<>>

(***************************************************************************)
(* Calls: a thread issues register_agent or run with some arguments        *)
(***************************************************************************)
\* a thread can issue a call: it is not inside one
CanCall(t) == pc[t] \in {"idle", "returned"}

\* MultiAgentWorkspace.register_agent(name, relative_path=rel, create_missing=create)
CallRegister(t, n, rel, create) ==
    /\ UNCHANGED <<aggVars, srvVars, cliVars, modVars>>
    /\ CanCall(t)
    /\ ncalls < MaxCalls
    /\ ncalls' = ncalls + 1
    /\ loc' = [loc EXCEPT ![t] = NoLoc]
    /\ arg' = [arg EXCEPT ![t] = [op |-> "register", name |-> n,
                                  rel |-> rel, create |-> create, prompt |-> "",
                                  cwd |-> NoCwd, opts |-> NoOptions]]
    /\ pc' = [pc EXCEPT ![t] = "reg_lock"]
    /\ UNCHANGED <<agents, regLock, sessName, sessWd, sessHist, agentLock, dirs,
                   clock, invLog>>

\* MultiAgentWorkspace.run(agent_name, prompt, **kwargs)
CallRun(t, n, prompt, cwd, opts) ==
    /\ UNCHANGED <<aggVars, srvVars, cliVars, modVars>>
    /\ CanCall(t)
    /\ ncalls < MaxCalls
    /\ ncalls' = ncalls + 1
    /\ loc' = [loc EXCEPT ![t] = NoLoc]
    /\ arg' = [arg EXCEPT ![t] = [op |-> "run", name |-> n,
                                  rel |-> NoPath, create |-> FALSE, prompt |-> prompt,
                                  cwd |-> cwd, opts |-> opts]]
    /\ pc' = [pc EXCEPT ![t] = "get_lock"]
    /\ UNCHANGED <<agents, regLock, sessName, sessWd, sessHist, agentLock, dirs,
                   clock, invLog>>

\* a call ends, by returning or raising: control is back at the caller,
\* which holds the outcome (status) and the value returned; of the call it
\* made, the operation, the name, the prompt and the invocation are remembered
Finish(t, status, s, res) ==
    /\ pc' = [pc EXCEPT ![t] = "returned"]
    /\ loc' = [loc EXCEPT ![t] = [NoLoc EXCEPT !.status = status, !.sess = s,
                                                !.inv = loc[t].inv,
                                                !.result = res]]
    /\ arg' = [arg EXCEPT ![t] = [NoArg EXCEPT !.op = arg[t].op,
                                                !.name = arg[t].name,
                                                !.prompt = arg[t].prompt]]


(***************************************************************************)
(* register_agent                                                          *)
(***************************************************************************)
\* "with self._lock:" can be entered by t (the RLock is never re-entered
\* by the code: no method calls another while holding it)
RegistryLockIgnored(t) == TRUE
RegistryLockAvailable(t) == regLock = NoThread

\* with self._lock:   (register_agent)
RegAcquire(t) ==
    /\ UNCHANGED <<aggVars, srvVars, cliVars, modVars>>
    /\ pc[t] = "reg_lock"
    /\ RegistryLockAvailable(t)
    /\ regLock' = t
    /\ pc' = [pc EXCEPT ![t] = "reg_check"]
    /\ UNCHANGED <<agents, sessName, sessWd, sessHist, agentLock, dirs, clock,
                   ncalls, arg, loc, invLog>>

\* the working directory register_agent computes for relative_path
Candidate(rel) ==
    IF rel = NoPath THEN ProjectRoot ELSE Resolve(JoinPath(ProjectRoot, rel))

\* the name check, the path check and the mkdir of register_agent
RegCheck(t) ==
    /\ UNCHANGED <<aggVars, srvVars, cliVars, modVars>>
    /\ pc[t] = "reg_check"
    /\ LET c == arg[t]
           wd == Candidate(c.rel)
       IN IF agents[c.name] # NoSession
          THEN \* raise ValueError("Agent ... already registered")
               /\ Finish(t, "conflict", NoSession, NoResult)
               /\ regLock' = NoThread
               /\ UNCHANGED dirs
          ELSE IF c.rel # NoPath /\ ~WithinRoot(ProjectRoot, wd)
          THEN \* raise ValueError("... must be within the project root")
               /\ Finish(t, "escape", NoSession, NoResult)
               /\ regLock' = NoThread
               /\ UNCHANGED dirs
          ELSE /\ dirs' = IF c.create THEN Mkdir(dirs, wd) ELSE dirs
               /\ loc' = [loc EXCEPT ![t].wd = wd]
               /\ pc' = [pc EXCEPT ![t] = "reg_insert"]
               /\ UNCHANGED regLock
               /\ UNCHANGED arg
    /\ UNCHANGED <<agents, sessName, sessWd, sessHist, agentLock, clock, ncalls,
                   invLog>>

\* agent = AgentSession(...); self._agents[name] = agent; return agent
RegInsert(t) ==
    /\ UNCHANGED <<aggVars, srvVars, cliVars, modVars>>
    /\ pc[t] = "reg_insert"
    /\ LET s == Len(sessName) + 1
       IN /\ sessName' = Append(sessName, arg[t].name)
          /\ sessWd' = Append(sessWd, loc[t].wd)
          /\ sessHist' = Append(sessHist, <<>>)
          /\ agentLock' = Append(agentLock, NoThread)
          /\ invLog' = Append(invLog, <<>>)
          /\ agents' = [agents EXCEPT ![arg[t].name] = s]
          /\ Finish(t, "ok", s, NoResult)
    /\ regLock' = NoThread
    /\ UNCHANGED <<dirs, clock, ncalls>>

(***************************************************************************)
(* run: MultiAgentWorkspace.run -> get_agent -> AgentSession.run           *)
(***************************************************************************)
\* with self._lock:   (get_agent)
GetAcquire(t) ==
    /\ UNCHANGED <<aggVars, srvVars, cliVars, modVars>>
    /\ pc[t] = "get_lock"
    /\ RegistryLockAvailable(t)
    /\ regLock' = t
    /\ pc' = [pc EXCEPT ![t] = "get_lookup"]
    /\ UNCHANGED <<agents, sessName, sessWd, sessHist, agentLock, dirs, clock,
                   ncalls, arg, loc, invLog>>

\* forwarded = dict(kwargs); forwarded.setdefault("cwd", str(self._working_directory))
ForwardedCwdAlwaysOwn(kwCwd, s) == sessWd[s]
ForwardedCwd(kwCwd, s) == IF kwCwd = NoCwd THEN sessWd[s] ELSE kwCwd

\* forwarded = dict(kwargs): the other keyword arguments, copied
ForwardedOptionsDropped(opts) == NoOptions
ForwardedOptions(opts) == opts

\* self._agents[name]: the session registered under name, NoSession (a
\* KeyError) when there is none
LookupFallsBack(name) ==
    IF agents[name] = NoSession /\ sessName # <<>> THEN 1 ELSE agents[name]
Lookup(name) == agents[name]

\* the registry lock once get_agent has left its with block
RegistryLockKept(t) == t
RegistryLockAfterLookup(t) == NoThread

\* return self._agents[name] (KeyError when absent), then the first two
\* statements of AgentSession.run
GetLookup(t) ==
    /\ UNCHANGED <<aggVars, srvVars, cliVars, modVars>>
    /\ pc[t] = "get_lookup"
    /\ LET s == Lookup(arg[t].name)
       IN IF s = NoSession
          THEN \* raise KeyError("Unknown agent ...")
               Finish(t, "notfound", NoSession, NoResult)
          ELSE /\ loc' = [loc EXCEPT ![t].sess = s,
                                     ![t].cwd = ForwardedCwd(arg[t].cwd, s),
                                     ![t].opts = ForwardedOptions(arg[t].opts)]
               /\ pc' = [pc EXCEPT ![t] = IF arg[t].op = "history"
                                          THEN "hist_copy" ELSE "as_lock"]
               /\ UNCHANGED arg
    /\ regLock' = RegistryLockAfterLookup(t)
    /\ UNCHANGED <<agents, sessName, sessWd, sessHist, agentLock, dirs, clock,
                   ncalls, invLog>>

\* an invocation is named by its session and its rank among the
\* invocations that took the session's lock
InvId(s) == <<s, Len(invLog[s]) + 1>>

\* "with self._lock:" of AgentSession.run can be entered (threading.Lock)
AgentLockIgnored(s) == TRUE
AgentLockAvailable(s) == agentLock[LockOf(s)] = NoThread

\* with self._lock: result = self._codex.run(prompt, **forwarded) -- the
\* lock is taken and the process invoker is called
AgentAcquire(t) ==
    /\ UNCHANGED <<aggVars, srvVars, cliVars, modVars>>
    /\ pc[t] = "as_lock"
    /\ LET s == loc[t].sess
       IN /\ AgentLockAvailable(s)
          /\ agentLock' = [agentLock EXCEPT ![LockOf(s)] = t]
          /\ invLog' = [invLog EXCEPT ![s] = Append(@, "pending")]
          /\ loc' = [loc EXCEPT ![t].inv = InvId(s)]
    /\ pc' = [pc EXCEPT ![t] = "as_inflight"]
    /\ UNCHANGED <<agents, regLock, sessName, sessWd, sessHist, dirs, clock,
                   ncalls, arg>>

\* the agent lock once the invoker has returned: the with block goes on
LockAfterReturnReleased(t, s) == [agentLock EXCEPT ![LockOf(s)] = NoThread]
LockAfterReturn(t, s) == agentLock

\* self._codex.run returns a CodexRunResult (a fresh object, rid)
InvokerReturn(t, v) ==
    /\ UNCHANGED <<aggVars, srvVars, cliVars, modVars>>
    /\ pc[t] = "as_inflight"
    /\ loc' = [loc EXCEPT ![t].result = [rid |-> loc[t].inv, val |-> v]]
    /\ agentLock' = LockAfterReturn(t, loc[t].sess)
    /\ invLog' = [invLog EXCEPT ![loc[t].inv[1]][loc[t].inv[2]] = "returned"]
    /\ pc' = [pc EXCEPT ![t] = "as_append"]
    /\ UNCHANGED <<agents, regLock, sessName, sessWd, sessHist, dirs, clock,
                   ncalls, arg>>

\* the history of session s after an invoker error: nothing is appended
HistoryAfterRaiseRecorded(t, s) ==
    [sessHist EXCEPT ![s] = Append(@, [prompt |-> arg[t].prompt,
                                       result |-> [rid |-> loc[t].inv, val |-> "<none>"],
                                       timestamp |-> clock])]
HistoryAfterRaise(t, s) == sessHist

\* the agent lock once the invoker has raised: the with block is left
LockAfterRaiseKept(t, s) == agentLock
LockAfterRaise(t, s) == [agentLock EXCEPT ![LockOf(s)] = NoThread]

\* self._codex.run raises: the with block is left, the lock released, the
\* error propagates to the caller of run
InvokerRaise(t) ==
    /\ UNCHANGED <<aggVars, srvVars, cliVars, modVars>>
    /\ pc[t] = "as_inflight"
    /\ agentLock' = LockAfterRaise(t, loc[t].sess)
    /\ sessHist' = HistoryAfterRaise(t, loc[t].sess)
    /\ invLog' = [invLog EXCEPT ![loc[t].inv[1]][loc[t].inv[2]] = "raised"]
    /\ Finish(t, "raised", loc[t].sess, NoResult)
    /\ UNCHANGED <<agents, regLock, sessName, sessWd, dirs, clock, ncalls>>

\* datetime.now(tz=timezone.utc): not before the last reading, and of
\* limited resolution (two readings may be equal)
Readings == {clock, clock + 1}

\* the AgentRun appended for a returned result
NewRunWrongPrompt(t, ts) ==
    [prompt |-> "", result |-> loc[t].result, timestamp |-> ts]
NewRun(t, ts) ==
    [prompt |-> arg[t].prompt, result |-> loc[t].result, timestamp |-> ts]

\* self._history.append(run): the list after the call
HistoryReplaced(old, run) == <<run>>
HistoryAppended(old, run) == Append(old, run)

\* self._history.append(AgentRun(prompt, result, timestamp=now))
AppendHistory(t, ts) ==
    /\ UNCHANGED <<aggVars, srvVars, cliVars, modVars>>
    /\ pc[t] = "as_append"
    /\ ts \in Readings
    /\ sessHist' = [sessHist EXCEPT ![loc[t].sess] = HistoryAppended(@, NewRun(t, ts))]
    /\ clock' = ts
    /\ pc' = [pc EXCEPT ![t] = "as_unlock"]
    /\ UNCHANGED <<agents, regLock, sessName, sessWd, agentLock, dirs, ncalls,
                   arg, loc, invLog>>

\* end of the with block, return result
ReleaseReturn(t) ==
    /\ UNCHANGED <<aggVars, srvVars, cliVars, modVars>>
    /\ pc[t] = "as_unlock"
    /\ agentLock' = [agentLock EXCEPT ![LockOf(loc[t].sess)] = NoThread]
    /\ Finish(t, "ok", loc[t].sess, loc[t].result)
    /\ UNCHANGED <<agents, regLock, sessName, sessWd, sessHist, dirs, clock,
                   ncalls, invLog>>

(***************************************************************************)
(* history: MultiAgentWorkspace.history, AgentSession.history              *)
(***************************************************************************)
\* MultiAgentWorkspace.history(agent_name)
CallHistory(t, n) ==
    /\ UNCHANGED <<aggVars, srvVars, cliVars, modVars>>
    /\ CanCall(t)
    /\ loc' = [loc EXCEPT ![t] = NoLoc]
    /\ arg' = [arg EXCEPT ![t] = [NoArg EXCEPT !.op = "history", !.name = n]]
    /\ pc' = [pc EXCEPT ![t] = IF n = NoName THEN "hist_agents" ELSE "get_lock"]
    /\ UNCHANGED <<agents, regLock, sessName, sessWd, sessHist, agentLock, dirs,
                   clock, ncalls, invLog>>

\* AgentSession.history: list(self._history), a new list
HistoryViewShared(s) == [alias |-> s, items |-> <<>>]
HistoryView(s) == [alias |-> NoSession, items |-> sessHist[s]]

\* the elements of a list object, as its holder reads them
ListOf(l) == IF l.alias = NoSession THEN l.items ELSE sessHist[l.alias]

\* history returns list l to its caller
HistoryReturn(t, l) ==
    /\ pc' = [pc EXCEPT ![t] = "returned"]
    /\ loc' = [loc EXCEPT ![t] = [NoLoc EXCEPT !.status = "ok",
                                                !.sess = loc[t].sess,
                                                !.ret = l]]
    /\ UNCHANGED arg

\* return self.get_agent(agent_name).history
HistCopy(t) ==
    /\ UNCHANGED <<aggVars, srvVars, cliVars, modVars>>
    /\ pc[t] = "hist_copy"
    /\ HistoryReturn(t, HistoryView(loc[t].sess))
    /\ UNCHANGED <<agents, regLock, sessName, sessWd, sessHist, agentLock, dirs,
                   clock, ncalls, invLog>>

\* list(self._agents.values()): the sessions in the order of their insertion
AgentsValues ==
    LET reg == {agents[n] : n \in Names} \ {NoSession}
    IN [i \in 1..Cardinality(reg) |->
           CHOOSE s \in reg : Cardinality({x \in reg : x < s}) = i - 1]

\* MultiAgentWorkspace.agents(), called by history: the with block is
\* entered, the list built and the lock released
AgentsSnapshot(t) ==
    /\ UNCHANGED <<aggVars, srvVars, cliVars, modVars>>
    /\ pc[t] = "hist_agents"
    /\ RegistryLockAvailable(t)
    /\ loc' = [loc EXCEPT ![t].snap = AgentsValues]
    /\ pc' = [pc EXCEPT ![t] = "hist_extend"]
    /\ UNCHANGED <<agents, regLock, sessName, sessWd, sessHist, agentLock, dirs,
                   clock, ncalls, arg, invLog>>

\* for agent in ...: runs.extend(agent.history), one iteration
HistExtend(t) ==
    /\ UNCHANGED <<aggVars, srvVars, cliVars, modVars>>
    /\ pc[t] = "hist_extend"
    /\ loc[t].snap # <<>>
    /\ loc' = [loc EXCEPT ![t].runs = @ \o ListOf(HistoryView(Head(loc[t].snap))),
                          ![t].snap = Tail(@)]
    /\ UNCHANGED <<agents, regLock, sessName, sessWd, sessHist, agentLock, dirs,
                   clock, ncalls, pc, arg, invLog>>

\* insertion of run r into a list sorted by timestamp, after the elements
\* whose timestamp is not larger
InsertBeforeEqual(r, sorted) ==
    LET k == Cardinality({i \in DOMAIN sorted : sorted[i].timestamp < r.timestamp})
    IN SubSeq(sorted, 1, k) \o <<r>> \o SubSeq(sorted, k + 1, Len(sorted))
InsertByTimestamp(r, sorted) ==
    LET k == Cardinality({i \in DOMAIN sorted : sorted[i].timestamp <= r.timestamp})
    IN SubSeq(sorted, 1, k) \o <<r>> \o SubSeq(sorted, k + 1, Len(sorted))

\* sorted(runs, key=lambda run: run.timestamp): a stable sort
RECURSIVE SortedByTimestamp(_)
SortedByTimestamp(runs) ==
    IF runs = <<>> THEN <<>>
    ELSE InsertByTimestamp(runs[Len(runs)],
                           SortedByTimestamp(SubSeq(runs, 1, Len(runs) - 1)))

\* return sorted(runs, key=...), once the loop over the agents has ended
HistSortReturn(t) ==
    /\ UNCHANGED <<aggVars, srvVars, cliVars, modVars>>
    /\ pc[t] = "hist_extend"
    /\ loc[t].snap = <<>>
    /\ HistoryReturn(t, [alias |-> NoSession, items |-> SortedByTimestamp(loc[t].runs)])
    /\ UNCHANGED <<agents, regLock, sessName, sessWd, sessHist, agentLock, dirs,
                   clock, ncalls, invLog>>

\* the caller of history empties the list it was given (returned.clear())
CallerClears(t) ==
    /\ UNCHANGED <<aggVars, srvVars, cliVars, modVars>>
    /\ pc[t] = "returned"
    /\ arg[t].op = "history"
    /\ loc[t].status = "ok"
    /\ ListOf(loc[t].ret) # <<>>
    /\ IF loc[t].ret.alias = NoSession
       THEN /\ loc' = [loc EXCEPT ![t].ret.items = <<>>]
            /\ UNCHANGED sessHist
       ELSE /\ sessHist' = [sessHist EXCEPT ![loc[t].ret.alias] = <<>>]
            /\ UNCHANGED loc
    /\ UNCHANGED <<agents, regLock, sessName, sessWd, agentLock, dirs, clock,
                   ncalls, pc, arg, invLog>>

(***************************************************************************)
(* JSON values, as json.loads returns them                                 *)
(***************************************************************************)
JStr(x) == [k |-> "str", s |-> x]
JInt(x) == [k |-> "int", n |-> x]
\* a float, whole.frac
JFloat(w, f) == [k |-> "float", whole |-> w, frac |-> f]
JObj(x) == [k |-> "obj", o |-> x]
JList == [k |-> "list"]
\* None: a JSON null, and what dict.get returns for a missing key
JNull == [k |-> "null"]

\* dict.get(key)
Get(obj, key) == IF key \in DOMAIN obj THEN obj[key] ELSE JNull
\* dict.get(key, 0)
GetOrZero(obj, key) == IF key \in DOMAIN obj THEN obj[key] ELSE JInt(0)

IsStr(v) == v.k = "str"
IsDict(v) == v.k = "obj"
\* v == "literal"
EqStr(v, lit) == v.k = "str" /\ v.s = lit

\* the strings int() parses, with their values
NumericStrings == [x \in {"12"} |-> 12]

\* int(v) raises (TypeError, ValueError)
IntRaises(v) ==
    \/ v.k \in {"null", "obj", "list"}
    \/ v.k = "str" /\ v.s \notin DOMAIN NumericStrings

\* int(v) when it does not raise: a float is truncated, a string parsed
ToInt(v) ==
    CASE v.k = "int" -> v.n
      [] v.k = "float" -> v.whole
      [] v.k = "str" -> NumericStrings[v.s]
      [] OTHER -> 0

(***************************************************************************)
(* Lines of the child's standard output                                    *)
(***************************************************************************)
Blank(text) == [kind |-> "blank", text |-> text, val |-> JNull]
Garbage(text) == [kind |-> "garbage", text |-> text, val |-> JNull]
\* a line that json.loads decodes, to val
Json(text, val) == [kind |-> "json", text |-> text, val |-> val]
Event(text, fields) == Json(text, JObj(fields))

Details(itemType, text) ==
    JObj([details |-> JObj([item_type |-> JStr(itemType), text |-> text])])

\* the lines tried
Lines ==
    << Blank("  "),
       Garbage("not json"),
       Json("[1]", JList),
       Event("ts-abc", [type |-> JStr("thread.started"), thread_id |-> JStr("abc")]),
       Event("ts-xyz", [type |-> JStr("thread.started"), thread_id |-> JStr("xyz")]),
       Event("ts-7", [type |-> JStr("thread.started"), thread_id |-> JInt(7)]),
       Event("am-Hello", [type |-> JStr("item.completed"),
                          item |-> Details("assistant_message", JStr("Hello"))]),
       Event("am-Bye", [type |-> JStr("item.completed"),
                        item |-> Details("assistant_message", JStr("Bye"))]),
       Event("re-Thinking", [type |-> JStr("item.completed"),
                             item |-> Details("reasoning", JStr("Thinking"))]),
       Event("am-5", [type |-> JStr("item.completed"),
                      item |-> Details("assistant_message", JInt(5))]),
       Event("cmd-ls", [type |-> JStr("item.completed"),
                        item |-> Details("command_execution", JStr("ls"))]),
       Event("item-str", [type |-> JStr("item.completed"), item |-> JStr("x")]),
       Event("item-nodetails", [type |-> JStr("item.completed"),
                                item |-> JObj([id |-> JStr("1")])]),
       Event("tc-7-2-5", [type |-> JStr("turn.completed"),
                          usage |-> JObj([input_tokens |-> JInt(7),
                                          cached_input_tokens |-> JInt(2),
                                          output_tokens |-> JInt(5)])]),
       Event("tc-1", [type |-> JStr("turn.completed"),
                      usage |-> JObj([input_tokens |-> JInt(1)])]),
       Event("tc-nousage", [type |-> JStr("turn.completed")]),
       Event("tc-bad", [type |-> JStr("turn.completed"),
                        usage |-> JObj([input_tokens |-> JStr("abc"),
                                        output_tokens |-> JInt(3)])]),
       Event("tc-conv", [type |-> JStr("turn.completed"),
                         usage |-> JObj([input_tokens |-> JFloat(1, 5),
                                         output_tokens |-> JStr("12")])]),
       Event("tf-failure", [type |-> JStr("turn.failed"),
                            error |-> JObj([message |-> JStr("failure")])]),
       Event("tf-str", [type |-> JStr("turn.failed"), error |-> JStr("failure")]),
       Event("err-secondary", [type |-> JStr("error"), message |-> JStr("secondary")]),
       Event("err-nomsg", [type |-> JStr("error")]),
       Event("turn.started", [type |-> JStr("turn.started"),
                              thread_id |-> JStr("other"),
                              message |-> JStr("ignored"),
                              item |-> Details("assistant_message", JStr("ignored")),
                              usage |-> JObj([input_tokens |-> JInt(9)]),
                              error |-> JObj([message |-> JStr("ignored")])]),
       Event("notype", [id |-> JInt(1)]) >>

(***************************************************************************)
(* CodexCLI: the environment and the argument vector given to the child    *)
(***************************************************************************)
\* a variable that is not set in an environment or a mapping
Unset == "<unset>"
\* an optional string that is None
NoStr == "<None>"

\* the environment variables followed
EnvKeys == {"PATH", "CODEX_HOME", "TOKEN"}
NoVars == [k \in EnvKeys |-> Unset]
\* os.environ when the client is constructed
OsEnviron == [NoVars EXCEPT !["PATH"] = "/bin", !["TOKEN"] = "inherited"]

\* an env argument: None, or a mapping (possibly empty)
NoEnv == [given |-> FALSE, vars |-> NoVars]
Env(assigned) == [given |-> TRUE, vars |-> assigned]
\* "if env:" -- a mapping that is not empty
EnvTruthy(e) == e.given /\ e.vars # NoVars

\* dict.update(extra)
Updated(base, extra) ==
    [k \in EnvKeys |-> IF extra[k] # Unset THEN extra[k] ELSE base[k]]

\* _build_cli_env(base_env, extra_env): the dict returned
BuildCliEnv(base, extra) ==
    IF EnvTruthy(extra) THEN Updated(base, extra.vars) ELSE base

\* _build_cli_env: base_env once the call has returned; env = dict(base_env)
\* is a copy, the update is made on the copy
BaseEnvUpdatedInPlace(base, extra) == BuildCliEnv(base, extra)
BaseEnvAfterBuild(base, extra) == base

\* str(Path(codex_home).expanduser())
ExpandUser(p) == IF p = "~/cx" THEN "/home/u/cx" ELSE p

\* CodexCLI.__init__: self._base_env for constructor arguments c
ConstructedEnv(c) ==
    LET configured == IF EnvTruthy(c.env) THEN Updated(OsEnviron, c.env.vars)
                      ELSE OsEnviron
    IN IF c.codex_home # NoStr
       THEN [configured EXCEPT !["CODEX_HOME"] = ExpandUser(c.codex_home)]
       ELSE configured

\* the constructor arguments tried: env and codex_home
DefaultConfig == [env |-> NoEnv, codex_home |-> NoStr]
Configs ==
    { DefaultConfig,
      [env |-> Env([NoVars EXCEPT !["TOKEN"] = "client"]), codex_home |-> NoStr],
      [env |-> Env([NoVars EXCEPT !["TOKEN"] = "client",
                                  !["CODEX_HOME"] = "/envhome"]),
       codex_home |-> "~/cx"] }

\* the env arguments of run tried
CallEnvs ==
    { NoEnv,
      Env(NoVars),
      Env([NoVars EXCEPT !["TOKEN"] = "call", !["CODEX_HOME"] = "/callhome"]) }

\* "if model:" and the like -- a string that is neither None nor empty
StrTruthy(s) == s # NoStr /\ s # ""

\* str(Path(p)): a trailing separator and a leading "./" are dropped
PathStr(p) ==
    IF p = "work/" THEN "work" ELSE IF p = "./out.txt" THEN "out.txt" ELSE p

\* images = None
NoImages == <<NoStr>>

\* for image in images: args.extend(["--image", str(Path(image))])
RECURSIVE ImageArgs(_)
ImageArgs(images) ==
    IF images = <<>> THEN <<>>
    ELSE <<"--image", PathStr(Head(images))>> \o ImageArgs(Tail(images))

\* if flag: args.append(name)
Flag(on, name) == IF on THEN <<name>> ELSE <<>>
\* if value: args.extend([name, value])
Opt(value, name) == IF StrTruthy(value) THEN <<name, value>> ELSE <<>>
\* if value: args.extend([name, str(Path(value))])
PathOpt(value, name) == IF StrTruthy(value) THEN <<name, PathStr(value)>> ELSE <<>>

\* the values of a config-override mapping, as Python objects
PyStr(x) == [k |-> "str", s |-> x]
PyInt(x) == [k |-> "int", n |-> x]
PyBool(x) == [k |-> "bool", b |-> x]
\* str(n) of the integers tried
IntTexts == [n \in {3} |-> "3"]
\* str(value), as the f-string and str(entry) compute it
Str(v) ==
    IF v.k = "str" THEN v.s
    ELSE IF v.k = "int" THEN IntTexts[v.n]
    ELSE IF v.b THEN "True" ELSE "False"

\* config_overrides: None, a mapping (its items in the mapping's order), or
\* an iterable of entries
NoOverrides == [kind |-> "none", items |-> <<>>]
Mapping(items) == [kind |-> "map", items |-> items]
Item(key, value) == [key |-> key, value |-> value]
Entries(entries) == [kind |-> "list", items |-> entries]

\* f"{key}={value}"
PairTextKeyOnly(key, value) == key
PairText(key, value) == key \o "=" \o Str(value)

\* for key, value in overrides.items(): formatted.extend(["-c", f"{key}={value}"])
RECURSIVE FormatItems(_)
FormatItems(items) ==
    IF items = <<>> THEN <<>>
    ELSE <<"-c", PairText(Head(items).key, Head(items).value)>>
         \o FormatItems(Tail(items))

\* for entry in overrides: formatted.extend(["-c", str(entry)])
RECURSIVE FormatEntries(_)
FormatEntries(entries) ==
    IF entries = <<>> THEN <<>>
    ELSE <<"-c", Str(Head(entries))>> \o FormatEntries(Tail(entries))

\* _format_config_overrides(overrides)
FormatConfigOverrides(overrides) ==
    IF overrides.kind = "none" THEN <<>>
    ELSE IF overrides.kind = "map" THEN FormatItems(overrides.items)
    ELSE FormatEntries(overrides.items)

\* self._binary
Binary == "codex"

\* the end of the argument vector before the prompt: "resume" and "--last"
\* or the session id
ResumeArgsIdFirst(c) ==
    IF StrTruthy(c.resume_session_id) \/ c.resume_last
    THEN <<"resume">> \o (IF StrTruthy(c.resume_session_id)
                          THEN <<c.resume_session_id>>
                          ELSE <<"--last">>)
    ELSE <<>>
ResumeArgs(c) ==
    IF StrTruthy(c.resume_session_id) \/ c.resume_last
    THEN <<"resume">> \o (IF c.resume_last THEN <<"--last">>
                          ELSE IF StrTruthy(c.resume_session_id)
                          THEN <<c.resume_session_id>>
                          ELSE <<>>)
    ELSE <<>>

\* the argument vector CodexCLI.run builds for keyword arguments c
BuildArgs(c) ==
    <<Binary, "exec", "--experimental-json">>
    \o (IF c.images # NoImages THEN ImageArgs(c.images) ELSE <<>>)
    \o Opt(c.model, "--model")
    \o Flag(c.oss, "--oss")
    \o Opt(c.config_profile, "--profile")
    \o Flag(c.full_auto, "--full-auto")
    \o Flag(c.dangerously_bypass_approvals, "--dangerously-bypass-approvals-and-sandbox")
    \o Opt(c.sandbox_mode, "--sandbox")
    \o PathOpt(c.cwd, "--cd")
    \o Flag(c.skip_git_repo_check, "--skip-git-repo-check")
    \o Flag(c.include_plan_tool, "--include-plan-tool")
    \o PathOpt(c.last_message_path, "--output-last-message")
    \o PathOpt(c.output_schema, "--output-schema")
    \o FormatConfigOverrides(c.config_overrides)
    \o ResumeArgs(c)
    \o <<c.prompt>>

\* the config_overrides, resume_session_id and resume_last arguments tried
TailsTried ==
    { <<NoOverrides, NoStr, FALSE>>,
      <<Mapping(<<Item("model", PyStr("o4-mini")), Item("profile", PyStr("default"))>>),
        "sess-1", TRUE>>,
      <<Mapping(<<Item("retries", PyInt(3)), Item("color", PyBool(TRUE)),
                  Item("approval", PyStr(""))>>),
        "sess-1", FALSE>>,
      <<Entries(<<PyStr("model=o4-mini"), PyStr("profile=default")>>), NoStr, TRUE>>,
      <<Mapping(<<>>), "", FALSE>>,
      <<Entries(<<>>), "", TRUE>> }

\* the other keyword arguments tried: every option supplied or not
OptionsTried ==
    [ prompt : {"hi"},
      images : {NoImages, <<"a.png", "./out.txt">>},
      model : {"", "o3"},
      oss : BOOLEAN,
      config_profile : {NoStr, "dev"},
      full_auto : BOOLEAN,
      dangerously_bypass_approvals : BOOLEAN,
      sandbox_mode : {NoStr, "read-only"},
      cwd : {NoStr, "work/"},
      skip_git_repo_check : BOOLEAN,
      include_plan_tool : BOOLEAN,
      last_message_path : {NoStr, "last.txt"},
      output_schema : {NoStr, "schema.json"},
      config_overrides : {NoOverrides},
      resume_session_id : {NoStr},
      resume_last : {FALSE},
      require_login : {FALSE},
      env : {NoEnv} ]

\* the keyword arguments of run tried for the argument vector
ArgCalls ==
    { [c EXCEPT !.config_overrides = t[1], !.resume_session_id = t[2],
                !.resume_last = t[3]] : c \in OptionsTried, t \in TailsTried }

\* run(prompt) with every keyword argument left at its default, but the
\* login check
DefaultCall ==
    [ prompt |-> "hi", images |-> NoImages, model |-> NoStr, oss |-> FALSE,
      config_profile |-> NoStr, full_auto |-> FALSE,
      dangerously_bypass_approvals |-> FALSE, sandbox_mode |-> NoStr,
      cwd |-> NoStr, skip_git_repo_check |-> FALSE, include_plan_tool |-> FALSE,
      last_message_path |-> NoStr, output_schema |-> NoStr,
      config_overrides |-> NoOverrides, resume_session_id |-> NoStr,
      resume_last |-> FALSE, require_login |-> FALSE, env |-> NoEnv ]

\* the keyword arguments of run tried for the life of the child
RunCalls ==
    { [DefaultCall EXCEPT !.require_login = r, !.env = e] :
          r \in BOOLEAN, e \in CallEnvs }

\* process = subprocess.Popen(args, env=cli_env, ...), called for c
Spawned(base, c) ==
    [args |-> BuildArgs(c), env |-> BuildCliEnv(base, c.env), call |-> c]

\* a client constructed with one of configs, and a call of run with one of
\* calls about to begin
RunInit(configs, calls) ==
    /\ cfg \in configs
    /\ base_env = ConstructedEnv(cfg)
    /\ call \in calls
    /\ queries = <<>>
    /\ spawns = <<>>
    /\ formatted = <<>>
    /\ child = "none"
    /\ drainer = "none"
    /\ nruns = 1

\* a default client whose run(prompt) has spawned its child and started
\* the thread draining the child's standard error
CliInit ==
    /\ cfg = DefaultConfig
    /\ base_env = ConstructedEnv(cfg)
    /\ call = DefaultCall
    /\ queries = <<>>
    /\ spawns = <<Spawned(base_env, call)>>
    /\ formatted = FormatConfigOverrides(call.config_overrides)
    /\ child = "running"
    /\ drainer = "running"
    /\ nruns = 1

(***************************************************************************)
(* codex_cli: the shared default client                                    *)
(***************************************************************************)
\* _default_client = None
NoClient == [by |-> "nobody", n |-> 0]
\* nothing returned yet
NoReturn == [op |-> "<none>", args |-> [client |-> NoClient], client |-> NoClient,
             value |-> "<none>"]

ModInit ==
    /\ default_client = NoClient
    /\ created = 0
    /\ received = <<>>
    /\ returned = NoReturn
    /\ nops = 0

\* a client object: made by the caller (CodexCLI(...)) or by get_client
Client(by, n) == [by |-> by, n |-> n]
\* the clients the caller passes to set_default_client
CallerClients == {Client("caller", 1), Client("caller", 2)}

\* the module-level helpers and the arguments they are called with
LoginArgs ==
    [mode |-> "api_key", api_key |-> "sk-1", use_device_code |-> FALSE,
     issuer |-> NoStr, client_id |-> "cid", stream_output |-> FALSE,
     env |-> Env([NoVars EXCEPT !["TOKEN"] = "call"])]
\* the arguments of the helper run: those of CodexCLI.run, with on_event
RunKeywords(c, on_event) ==
    [ prompt |-> c.prompt, images |-> c.images, model |-> c.model,
      config_profile |-> c.config_profile, full_auto |-> c.full_auto,
      dangerously_bypass_approvals |-> c.dangerously_bypass_approvals,
      sandbox_mode |-> c.sandbox_mode, cwd |-> c.cwd,
      include_plan_tool |-> c.include_plan_tool,
      config_overrides |-> c.config_overrides,
      last_message_path |-> c.last_message_path,
      output_schema |-> c.output_schema,
      resume_session_id |-> c.resume_session_id,
      resume_last |-> c.resume_last, require_login |-> c.require_login,
      on_event |-> on_event, env |-> c.env, oss |-> c.oss,
      skip_git_repo_check |-> c.skip_git_repo_check ]
HelperCalls ==
    { <<"login_status", [env |-> Env([NoVars EXCEPT !["TOKEN"] = "call"])]>>,
      <<"login", LoginArgs>>,
      <<"logout", [env |-> NoEnv]>>,
      <<"run", RunKeywords(DefaultCall, NoStr)>>,
      <<"run", RunKeywords([DefaultCall EXCEPT !.model = "o3",
                                           !.require_login = TRUE,
                                           !.resume_last = TRUE], "callback")>> }

\* what the client's operation returns
HelperResults ==
    [op \in {"login_status", "login", "logout", "run"} |->
        IF op = "login_status" THEN {"logged in", "not logged in"}
        ELSE IF op = "login" THEN {"captured output"}
        ELSE IF op = "logout" THEN {"<None>"}
        ELSE {"result"}]

\* the keyword arguments a helper passes to the client's method, given its own
ForwardedDefaults(op, a) ==
    IF op = "run" THEN RunKeywords([DefaultCall EXCEPT !.prompt = a.prompt], NoStr)
    ELSE IF op = "login" THEN [LoginArgs EXCEPT !.env = NoEnv]
    ELSE [env |-> NoEnv]
Forwarded(op, a) ==
    IF op = "run"
    THEN [ prompt |-> a.prompt, images |-> a.images, model |-> a.model,
           config_profile |-> a.config_profile, full_auto |-> a.full_auto,
           dangerously_bypass_approvals |-> a.dangerously_bypass_approvals,
           sandbox_mode |-> a.sandbox_mode, cwd |-> a.cwd,
           include_plan_tool |-> a.include_plan_tool,
           config_overrides |-> a.config_overrides,
           last_message_path |-> a.last_message_path,
           output_schema |-> a.output_schema,
           resume_session_id |-> a.resume_session_id,
           resume_last |-> a.resume_last, require_login |-> a.require_login,
           on_event |-> a.on_event, env |-> a.env, oss |-> a.oss,
           skip_git_repo_check |-> a.skip_git_repo_check ]
    ELSE IF op = "login"
    THEN [ mode |-> a.mode, api_key |-> a.api_key,
           use_device_code |-> a.use_device_code, issuer |-> a.issuer,
           client_id |-> a.client_id, stream_output |-> a.stream_output,
           env |-> a.env ]
    ELSE [env |-> a.env]

\* get_client(): the client returned and the module state after the call;
\* with no default client, CodexCLI() is constructed (made: the check of
\* the binary passed) and kept
ClientAfterGet(made) ==
    IF default_client # NoClient THEN default_client
    ELSE IF made THEN Client("module", created + 1)
    ELSE NoClient
CreatedAfterGet(made) ==
    IF default_client = NoClient /\ made THEN created + 1 ELSE created

\* a module-level call ends: the caller holds what it called, with what,
\* the client involved and the value returned ("<raised>": an exception)
Return(op, a, c, value) ==
    /\ returned' = [op |-> op, args |-> a, client |-> c, value |-> value]
    /\ nops' = nops + 1
    /\ nops < MaxOps
    /\ UNCHANGED <<wsVars, aggVars, srvVars, cliVars>>

\* set_default_client(client)
SetDefaultClient(c) ==
    /\ default_client' = c
    /\ Return("set_default_client", [client |-> c], c, "client")
    /\ UNCHANGED <<created, received>>

\* reset_default_client()
ResetDefaultClient ==
    /\ default_client' = NoClient
    /\ Return("reset_default_client", [client |-> NoClient], NoClient, "<None>")
    /\ UNCHANGED <<created, received>>

\* get_client()
GetClient(made) ==
    /\ default_client # NoClient => made
    /\ default_client' = ClientAfterGet(made)
    /\ created' = CreatedAfterGet(made)
    /\ Return("get_client", [client |-> NoClient], ClientAfterGet(made),
              IF ClientAfterGet(made) = NoClient THEN "<raised>" ELSE "client")
    /\ UNCHANGED received

\* login_status(...), login(...), logout(...), run(...):
\* return get_client().<op>(...); value is what the client's method returns
Helper(op, a, made, value) ==
    /\ default_client # NoClient => made
    /\ value \in HelperResults[op]
    /\ default_client' = ClientAfterGet(made)
    /\ created' = CreatedAfterGet(made)
    /\ IF ClientAfterGet(made) = NoClient
       THEN /\ Return(op, a, NoClient, "<raised>")
            /\ UNCHANGED received
       ELSE /\ received' = Append(received, [client |-> ClientAfterGet(made),
                                             op |-> op,
                                             args |-> Forwarded(op, a),
                                             result |-> value])
            /\ Return(op, a, ClientAfterGet(made), value)

ModNext ==
    \/ \E c \in CallerClients : SetDefaultClient(c)
    \/ ResetDefaultClient
    \/ \E made \in BOOLEAN : GetClient(made)
    \/ \E h \in HelperCalls, made \in BOOLEAN :
           \E value \in HelperResults[h[1]] : Helper(h[1], h[2], made, value)

(***************************************************************************)
(* _ExperimentalJsonAggregator, fed by the stdout loop of CodexCLI.run     *)
(***************************************************************************)
NoThreadId == "<None>"
NoUsage == [present |-> FALSE, input_tokens |-> 0, cached_input_tokens |-> 0,
            output_tokens |-> 0]
NoResultYet == [thread_id |-> NoThreadId, usage |-> NoUsage, raw_output |-> <<>>,
                stderr |-> ""]

NoExit == -1
\* as_result has not been called
NoBuilt == [events |-> <<"<none>">>]
NoFailure == [message |-> <<"<none>">>, stderr |-> "", stdout |-> <<>>]

AggInit ==
    /\ delivered = <<>>
    /\ failure = NoFailure
    /\ exitCode = NoExit
    /\ built = NoBuilt
    /\ raw_lines = <<>>
    /\ events = <<>>
    /\ assistant_messages = <<>>
    /\ reasoning = <<>>
    /\ errors = <<>>
    /\ thread_id = NoThreadId
    /\ usage = NoUsage
    /\ aggPc = "reading"
    /\ raised = "<none>"
    /\ result = NoResultYet
    /\ fed = <<>>

SrvInit ==
    /\ srvIn = <<>>
    /\ srvOut = <<>>
    /\ srvPc = "serving"

Init == WsInit /\ AggInit /\ SrvInit /\ CliInit /\ ModInit

\* line = raw_line.strip(); if not line: return
IsBlank(ln) == ln.kind = "blank"

\* a decoder that accepts every line
DecodeNeverFails(ln) == FALSE
\* json.loads(line) raises JSONDecodeError
DecodeFails(ln) == ln.kind = "garbage"

\* event_type == "literal"
TypeIgnored(ev, lit) == TRUE
TypeIs(ev, lit) == EqStr(Get(ev, "type"), lit)

\* self.thread_id after a decoded event
ThreadIdFirstWins(ev, old) ==
    IF TypeIs(ev, "thread.started") /\ IsStr(Get(ev, "thread_id")) /\ old = NoThreadId
    THEN Get(ev, "thread_id").s ELSE old
ThreadIdAfter(ev, old) ==
    IF TypeIs(ev, "thread.started") /\ IsStr(Get(ev, "thread_id"))
    THEN Get(ev, "thread_id").s ELSE old

\* the details of an item.completed event that carry a string text, if any
HasTextDetails(ev) ==
    /\ TypeIs(ev, "item.completed")
    /\ IsDict(Get(ev, "item"))
    /\ IsDict(Get(Get(ev, "item").o, "details"))
    /\ IsStr(Get(Get(Get(ev, "item").o, "details").o, "text"))
ItemType(ev) == Get(Get(Get(ev, "item").o, "details").o, "item_type")
ItemText(ev) == Get(Get(Get(ev, "item").o, "details").o, "text").s

\* self.assistant_messages after a decoded event
AssistantAfterAnyItem(ev, old) ==
    IF HasTextDetails(ev) THEN Append(old, ItemText(ev)) ELSE old
AssistantAfter(ev, old) ==
    IF HasTextDetails(ev) /\ EqStr(ItemType(ev), "assistant_message")
    THEN Append(old, ItemText(ev)) ELSE old

\* self.reasoning after a decoded event
ReasoningAfter(ev, old) ==
    IF HasTextDetails(ev) /\ ~EqStr(ItemType(ev), "assistant_message")
                          /\ EqStr(ItemType(ev), "reasoning")
    THEN Append(old, ItemText(ev)) ELSE old

\* the event is a turn.completed whose usage is a dict
HasUsage(ev) == TypeIs(ev, "turn.completed") /\ IsDict(Get(ev, "usage"))
Counter(ev, key) == GetOrZero(Get(ev, "usage").o, key)
CounterKeys == {"input_tokens", "cached_input_tokens", "output_tokens"}

\* one of the three int(...) calls building the Usage raises
UsageRaises(ev) == HasUsage(ev) /\ \E key \in CounterKeys : IntRaises(Counter(ev, key))

\* self.usage after a decoded event whose counters convert
UsageFirstWins(ev, old) ==
    IF HasUsage(ev) /\ ~old.present
    THEN [present |-> TRUE,
          input_tokens |-> ToInt(Counter(ev, "input_tokens")),
          cached_input_tokens |-> ToInt(Counter(ev, "cached_input_tokens")),
          output_tokens |-> ToInt(Counter(ev, "output_tokens"))]
    ELSE old
UsageAfter(ev, old) ==
    IF HasUsage(ev)
    THEN [present |-> TRUE,
          input_tokens |-> ToInt(Counter(ev, "input_tokens")),
          cached_input_tokens |-> ToInt(Counter(ev, "cached_input_tokens")),
          output_tokens |-> ToInt(Counter(ev, "output_tokens"))]
    ELSE old

\* Usage.total_tokens
TotalTokensNoCache(u) == u.input_tokens + u.output_tokens
TotalTokens(u) == u.input_tokens + u.cached_input_tokens + u.output_tokens

\* self.errors after a decoded event
ErrorsOnlyTurnFailed(ev, old) ==
    IF /\ TypeIs(ev, "turn.failed")
       /\ IsDict(Get(ev, "error"))
       /\ IsStr(Get(Get(ev, "error").o, "message"))
    THEN Append(old, Get(Get(ev, "error").o, "message").s)
    ELSE old
ErrorsAfter(ev, old) ==
    IF /\ TypeIs(ev, "turn.failed")
       /\ IsDict(Get(ev, "error"))
       /\ IsStr(Get(Get(ev, "error").o, "message"))
    THEN Append(old, Get(Get(ev, "error").o, "message").s)
    ELSE IF TypeIs(ev, "error") /\ IsStr(Get(ev, "message"))
    THEN Append(old, Get(ev, "message").s)
    ELSE old

\* CodexRunResult.succeeded
Succeeded(errs) == errs = <<>>

\* an exception leaves CodexCLI.run: exc is its class, fail the message,
\* stderr and stdout of a CodexRunError (NoFailure for another class)
Raise(exc, fail) ==
    /\ aggPc' = "raised"
    /\ raised' = exc
    /\ failure' = fail

\* the CodexRunError add_line raises for an undecodable line
DecodeError(ln) ==
    [message |-> <<"Failed to decode JSON event emitted by codex exec">>,
     stderr |-> "", stdout |-> <<ln.text>>]

\* if on_event and aggregator.events: on_event(aggregator.events[-1]), with
\* a callback supplied, after add_line left the event list as evs
DeliveredAfter(evs) ==
    IF evs # <<>> THEN Append(delivered, evs[Len(evs)]) ELSE delivered

\* for line in process.stdout: aggregator.add_line(line), with line Lines[i]
AddLine(i) ==
    /\ UNCHANGED <<wsVars, srvVars, modVars, cliVars>>
    /\ aggPc = "reading"
    /\ child # "none"
    /\ Len(fed) < MaxLines
    /\ fed' = Append(fed, i)
    /\ UNCHANGED <<result, exitCode, built>>
    /\ LET ln == Lines[i]
       IN IF IsBlank(ln)
          THEN /\ delivered' = DeliveredAfter(events)
               /\ UNCHANGED <<raw_lines, events, assistant_messages, reasoning,
                              errors, thread_id, usage, aggPc, raised, failure>>
          ELSE IF DecodeFails(ln)
          THEN /\ Raise("CodexRunError", DecodeError(ln))
               /\ UNCHANGED <<raw_lines, events, assistant_messages, reasoning,
                              errors, thread_id, usage, delivered>>
          ELSE /\ raw_lines' = Append(raw_lines, ln.text)
               /\ events' = Append(events, ln.val)
               /\ IF ~IsDict(ln.val)
                  THEN \* event.get: no such attribute
                       /\ Raise("AttributeError", NoFailure)
                       /\ UNCHANGED <<assistant_messages, reasoning, errors,
                                      thread_id, usage, delivered>>
                  ELSE IF UsageRaises(ln.val.o)
                  THEN /\ Raise("ValueError", NoFailure)
                       /\ UNCHANGED <<assistant_messages, reasoning, errors,
                                      thread_id, usage, delivered>>
                  ELSE /\ thread_id' = ThreadIdAfter(ln.val.o, thread_id)
                       /\ assistant_messages' = AssistantAfter(ln.val.o, assistant_messages)
                       /\ reasoning' = ReasoningAfter(ln.val.o, reasoning)
                       /\ usage' = UsageAfter(ln.val.o, usage)
                       /\ errors' = ErrorsAfter(ln.val.o, errors)
                       /\ delivered' = DeliveredAfter(events')
                       /\ UNCHANGED <<aggPc, raised, failure>>

\* the diagnostic text captured from the child's standard error
StderrTexts == {"", "boom"}

\* the exit statuses of the child tried
ExitCodes == {0, 1}
\* the ends of the child tried: (diagnostic text, exit status); a child
\* that fails has written a diagnostic
Exits == {e \in StderrTexts \X ExitCodes : e[2] = 0 \/ e[1] # ""}

\* if return_code != 0
ExitNeverFails(rc) == FALSE
ExitFails(rc) == rc # 0

\* the CodexRunError raised for exit status rc
ExitError(rc, stderr, res) ==
    [message |-> <<"codex exec exited with status", rc>>,
     stderr |-> stderr, stdout |-> res.raw_output]

\* the fields as_result copies: thread_id, usage and the joined raw output
\* are values of their own; the four lists are the aggregator's own list
\* objects, which the CodexRunResult holds from then on
Copied(stderr) ==
    [thread_id |-> thread_id, usage |-> usage, raw_output |-> raw_lines,
     stderr |-> stderr]

\* the CodexRunResult as_result built, as its holder reads it: the list
\* fields are read through the shared list objects
Result ==
    [events |-> events, assistant_messages |-> assistant_messages,
     reasoning |-> reasoning, usage |-> result.usage, errors |-> errors,
     raw_output |-> result.raw_output, stderr |-> result.stderr,
     thread_id |-> result.thread_id]

\* end of the stream: return_code = process.wait(); result =
\* aggregator.as_result(stderr); a CodexRunError is raised for a non-zero
\* status, else the result is returned.  The lists of the result are the
\* aggregator's own list objects; thread_id, usage and the joined raw
\* output are copied
AsResult(stderr, rc) ==
    /\ UNCHANGED <<wsVars, srvVars, modVars>>
    /\ aggPc = "reading"
    /\ child # "none"
    /\ child' = "exited"
    /\ drainer' = "joined"
    /\ UNCHANGED <<cfg, base_env, call, queries, spawns, formatted, nruns>>
    /\ exitCode' = rc
    /\ result' = Copied(stderr)
    /\ IF ExitFails(rc)
       THEN Raise("CodexRunError", ExitError(rc, stderr, result'))
       ELSE /\ aggPc' = "done"
            /\ UNCHANGED <<raised, failure>>
    /\ UNCHANGED <<raw_lines, events, assistant_messages, reasoning, errors,
                   thread_id, usage, fed, delivered>>
    /\ built' = Result'

(***************************************************************************)
(* LocalProjectMCPServer: call_tool, handle_request, serve_stdio           *)
(***************************************************************************)
\* the CodexRunResult objects the process invoker returns to the adapter
RunResults == {"clean", "answered", "blank", "failed"}

\* CodexRunResult.assistant_messages, .errors, .usage of a result
AssistantMessagesOf(v) ==
    CASE v = "answered" -> <<"Hi", "Done">>
      [] v = "blank" -> <<"">>
      [] v = "failed" -> <<"partial">>
      [] OTHER -> <<>>
ErrorsOf(v) == IF v = "failed" THEN <<"boom", "again">> ELSE <<>>
UsageOf(v) ==
    CASE v = "answered" -> [present |-> TRUE, input_tokens |-> 7,
                            cached_input_tokens |-> 2, output_tokens |-> 5]
      [] v = "failed" -> [present |-> TRUE, input_tokens |-> 1,
                          cached_input_tokens |-> 0, output_tokens |-> 0]
      [] OTHER -> NoUsage

\* CodexRunResult.last_message
NoMessage == "<no message>"
LastMessage(msgs) == IF msgs = <<>> THEN NoMessage ELSE msgs[Len(msgs)]

\* content_text = result.last_message or ""
ContentTextFirst(msgs) == IF msgs = <<>> THEN "" ELSE msgs[1]
ContentText(msgs) ==
    IF LastMessage(msgs) \in {NoMessage, ""} THEN "" ELSE LastMessage(msgs)

NoMetaUsage == [input |-> 0, cached |-> 0, output |-> 0]

\* the payload call_tool builds from result v; metaKeys are the keys of
\* payload["metadata"] (empty: the payload has no metadata)
ToolPayload(v) ==
    [text |-> ContentText(AssistantMessagesOf(v)),
     isError |-> ErrorsOf(v) # <<>>,
     metaKeys |-> (IF ErrorsOf(v) # <<>> THEN {"errors"} ELSE {})
                    \cup (IF UsageOf(v).present THEN {"usage"} ELSE {}),
     metaErrors |-> ErrorsOf(v),
     metaUsage |-> IF UsageOf(v).present
                   THEN [input |-> UsageOf(v).input_tokens,
                         cached |-> UsageOf(v).cached_input_tokens,
                         output |-> UsageOf(v).output_tokens]
                   ELSE NoMetaUsage]

\* exceptions, and str(exc): a KeyError shows the repr of its argument
Exc(type, text) == [type |-> type, text |-> text]
NoExc == Exc("<none>", "")
StrOf(exc) == [quoted |-> exc.type = "KeyError", text |-> exc.text]

\* LocalProjectMCPServer.TOOL_NAME
ToolName == "multiagent.run"
ErrorCode == -32000

\* the truth value of a JSON value (x or {})
Falsy(v) ==
    \/ v.k = "null"
    \/ v.k = "int" /\ v.n = 0
    \/ v.k = "str" /\ v.s = ""

\* params.get("arguments") or {}
ArgumentsOf(params) ==
    IF Falsy(Get(params, "arguments")) THEN JObj([x \in {} |-> JNull])
    ELSE Get(params, "arguments")

\* the exception handle_request and call_tool raise for request req before
\* workspace.run is called (NoExc: none)
DispatchError(req) ==
    LET method == Get(req, "method")
        params == Get(req, "params")
    IN IF EqStr(method, "initialize") \/ EqStr(method, "tools/list") THEN NoExc
       ELSE IF ~EqStr(method, "tools/call")
       THEN Exc("ValueError", "Unsupported method")
       ELSE IF ~IsDict(params)
       THEN Exc("ValueError", "tools/call requires params")
       ELSE IF ~IsStr(Get(params.o, "name"))
       THEN Exc("ValueError", "Tool name must be a string")
       ELSE IF ~IsDict(ArgumentsOf(params.o))
       THEN Exc("ValueError", "Tool arguments must be a mapping")
       ELSE IF Get(params.o, "name").s # ToolName
       THEN Exc("ValueError", "Unknown tool")
       ELSE IF ~IsStr(Get(ArgumentsOf(params.o).o, "agent"))
               \/ ~IsStr(Get(ArgumentsOf(params.o).o, "prompt"))
       THEN Exc("ValueError", "Tool arguments must include 'agent' and 'prompt' strings")
       ELSE NoExc

\* except Exception: the exceptions handle_request turns into a response
CaughtOnlyValueError(exc) == exc.type = "ValueError"
Caught(exc) == TRUE

\* the exception workspace.run raised to call_tool
RunError(status) ==
    IF status = "notfound" THEN Exc("KeyError", "Unknown agent")
    ELSE Exc("CodexRunError", "codex exec failed")

\* run_kwargs: the config mapping of the arguments, as keyword arguments
KwCwd(arguments) ==
    LET config == Get(arguments, "config")
    IN IF IsDict(config) /\ "cwd" \in DOMAIN config.o
       THEN <<config.o.cwd.s>> ELSE NoCwd
KwOptions(arguments) ==
    LET config == Get(arguments, "config")
    IN IF IsDict(config)
       THEN {<<key, config.o[key].s>> : key \in DOMAIN config.o \ {"cwd"}}
       ELSE NoOptions

NoPayload == [text |-> "", isError |-> FALSE, metaKeys |-> {},
              metaErrors |-> <<>>, metaUsage |-> NoMetaUsage]
NoError == [code |-> 0, message |-> StrOf(NoExc)]

\* the responses handle_request returns
ErrorResponseWithResult(id, exc) ==
    [keys |-> {"jsonrpc", "id", "result", "error"}, id |-> id,
     result |-> [of |-> "<none>", payload |-> NoPayload],
     error |-> [code |-> ErrorCode, message |-> StrOf(exc)]]
ErrorResponse(id, exc) ==
    [keys |-> {"jsonrpc", "id", "error"}, id |-> id,
     result |-> [of |-> "<none>", payload |-> NoPayload],
     error |-> [code |-> ErrorCode, message |-> StrOf(exc)]]
ResultResponse(id, of, payload) ==
    [keys |-> {"jsonrpc", "id", "result"}, id |-> id,
     result |-> [of |-> of, payload |-> payload],
     error |-> NoError]

\* the request lines tried
ToolsCall(text, id, params) ==
    Event(text, [method |-> JStr("tools/call"), id |-> JInt(id), params |-> params])
Arguments(agent, prompt) == JObj([agent |-> agent, prompt |-> prompt])
Requests ==
    << Blank(" "),
       Garbage("{oops"),
       Json("[1]", JList),
       Event("initialize", [method |-> JStr("initialize"), id |-> JInt(1)]),
       Event("tools/list", [method |-> JStr("tools/list"), id |-> JStr("two")]),
       Event("ping", [method |-> JStr("ping"), id |-> JInt(3)]),
       Event("no-method", [params |-> JNull]),
       ToolsCall("call-bob", 12,
                 JObj([name |-> JStr(ToolName),
                       arguments |-> Arguments(JStr("bob"), JStr("hello"))])),
       Event("call-noparams", [method |-> JStr("tools/call"), id |-> JInt(4)]),
       ToolsCall("call-name-int", 5, JObj([name |-> JInt(1)])),
       ToolsCall("call-args-str", 6, JObj([name |-> JStr(ToolName),
                                            arguments |-> JStr("x")])),
       ToolsCall("call-unknown-tool", 7,
                 JObj([name |-> JStr("other"),
                       arguments |-> Arguments(JStr("alice"), JStr("hello"))])),
       ToolsCall("call-noargs", 8, JObj([name |-> JStr(ToolName)])),
       ToolsCall("call-agent-int", 9,
                 JObj([name |-> JStr(ToolName),
                       arguments |-> Arguments(JInt(1), JStr("hello"))])),
       ToolsCall("call-alice", 10,
                 JObj([name |-> JStr(ToolName),
                       arguments |-> Arguments(JStr("alice"), JStr("hello"))])),
       ToolsCall("call-alice-config", 11,
                 JObj([name |-> JStr(ToolName),
                       arguments |-> JObj([agent |-> JStr("alice"),
                                           prompt |-> JStr("world"),
                                           config |-> JObj([cwd |-> JStr("elsewhere")])])])) >>

\* the thread registering agents and the thread running serve_stdio
Registrar == "t1"
Server == "t2"

\* one iteration of the loop of serve_stdio over line Requests[i], up to
\* the response written or, for a tool call that passed the checks of
\* handle_request and call_tool, up to the call of workspace.run
ServeLine(i) ==
    /\ UNCHANGED <<aggVars, cliVars, modVars>>
    /\ srvPc = "serving"
    /\ Len(srvIn) < MaxRequests
    /\ srvIn' = Append(srvIn, i)
    /\ UNCHANGED <<agents, regLock, sessName, sessWd, sessHist, agentLock, dirs,
                   clock, ncalls, invLog>>
    /\ LET ln == Requests[i]
       IN IF IsBlank(ln)
          THEN \* continue
               UNCHANGED <<srvOut, srvPc, pc, arg, loc>>
          ELSE IF DecodeFails(ln) \/ ~IsDict(ln.val)
          THEN \* json.loads(line) raises JSONDecodeError, or request.get
               \* raises AttributeError: serve_stdio is left by the exception
               /\ srvPc' = "raised"
               /\ UNCHANGED <<srvOut, pc, arg, loc>>
          ELSE LET req == ln.val.o
                   id == Get(req, "id")
                   exc == DispatchError(req)
               IN IF exc # NoExc /\ ~Caught(exc)
                  THEN /\ srvPc' = "raised"
                       /\ UNCHANGED <<srvOut, pc, arg, loc>>
                  ELSE IF exc # NoExc
                  THEN /\ srvOut' = Append(srvOut, ErrorResponse(id, exc))
                       /\ UNCHANGED <<srvPc, pc, arg, loc>>
                  ELSE IF ~EqStr(Get(req, "method"), "tools/call")
                  THEN /\ srvOut' = Append(srvOut,
                                           ResultResponse(id, Get(req, "method").s,
                                                          NoPayload))
                       /\ UNCHANGED <<srvPc, pc, arg, loc>>
                  ELSE \* result = self._workspace.run(agent_name, prompt, **run_kwargs)
                       LET arguments == ArgumentsOf(req.params.o).o
                       IN /\ srvPc' = "calling"
                          /\ pc' = [pc EXCEPT ![Server] = "get_lock"]
                          /\ loc' = [loc EXCEPT ![Server] = NoLoc]
                          /\ arg' = [arg EXCEPT ![Server] =
                                        [NoArg EXCEPT !.op = "run",
                                                      !.name = arguments.agent.s,
                                                      !.prompt = arguments.prompt.s,
                                                      !.cwd = KwCwd(arguments),
                                                      !.opts = KwOptions(arguments)]]
                          /\ UNCHANGED srvOut

\* workspace.run is back in call_tool: the payload is built and the
\* response written, or the exception is turned into an error response
ServeRespond ==
    /\ UNCHANGED <<wsVars, aggVars, cliVars, modVars>>
    /\ srvPc = "calling"
    /\ pc[Server] = "returned"
    /\ LET id == Get(Requests[srvIn[Len(srvIn)]].val.o, "id")
           exc == RunError(loc[Server].status)
       IN IF loc[Server].status = "ok"
          THEN /\ srvOut' = Append(srvOut,
                                   ResultResponse(id, "tools/call",
                                                  ToolPayload(loc[Server].result.val)))
               /\ srvPc' = "serving"
          ELSE IF Caught(exc)
          THEN /\ srvOut' = Append(srvOut, ErrorResponse(id, exc))
               /\ srvPc' = "serving"
          ELSE /\ srvPc' = "raised"
               /\ UNCHANGED srvOut
    /\ UNCHANGED srvIn

McpNext ==
    \/ CallRegister(Registrar, "alice", NoPath, FALSE)
    \/ \E i \in 1..Len(Requests) : ServeLine(i)
    \/ ServeRespond
    \/ \E t \in {Registrar, Server} : RegAcquire(t)
    \/ \E t \in {Registrar, Server} : RegCheck(t)
    \/ \E t \in {Registrar, Server} : RegInsert(t)
    \/ \E t \in {Registrar, Server} : GetAcquire(t)
    \/ \E t \in {Registrar, Server} : GetLookup(t)
    \/ \E t \in {Registrar, Server} : AgentAcquire(t)
    \/ \E t \in {Registrar, Server}, v \in RunResults : InvokerReturn(t, v)
    \/ \E t \in {Registrar, Server} : InvokerRaise(t)
    \/ \E t \in {Registrar, Server}, ts \in {r \in Readings : r <= MaxClock} :
           AppendHistory(t, ts)
    \/ \E t \in {Registrar, Server} : ReleaseReturn(t)

\* aggregator.as_result(stderr) called on an aggregator that goes on being
\* fed afterwards
TakeResult(stderr) ==
    /\ UNCHANGED <<wsVars, srvVars, modVars, cliVars>>
    /\ aggPc = "reading"
    /\ built = NoBuilt
    /\ result' = Copied(stderr)
    /\ UNCHANGED <<raw_lines, events, assistant_messages, reasoning, errors,
                   thread_id, usage, aggPc, raised, fed, delivered, failure,
                   exitCode>>
    /\ built' = Result'

(***************************************************************************)
(* CodexCLI.run: the login check, the child and its streams                *)
(***************************************************************************)
\* if require_login:
LoginNeverRequired(c) == FALSE
LoginRequired(c) == c.require_login

\* login_status: logged_in is proc.returncode == 0
LoggedIn(rc) == rc = 0

\* the lines of the child's standard output tried for the life of the child
RunLines ==
    {i \in 1..Len(Lines) : Lines[i].text \in {"  ", "not json", "ts-abc"}}

\* CodexCLI.run from its first statement to stderr_thread.start(): the
\* login check (rc is the exit status of "login status"), the argument
\* vector, the environment, Popen and the drain thread
Start(rc) ==
    /\ UNCHANGED <<wsVars, srvVars, modVars>>
    /\ aggPc = "reading"
    /\ child = "none"
    /\ rc \in ExitCodes
    /\ LoginRequired(call) \/ rc = 0
    /\ queries' = IF LoginRequired(call)
                  THEN Append(queries, [env |-> BuildCliEnv(base_env, call.env),
                                        returncode |-> rc])
                  ELSE queries
    /\ base_env' = BaseEnvAfterBuild(base_env, call.env)
    /\ IF LoginRequired(call) /\ ~LoggedIn(rc)
       THEN /\ Raise("CodexLoginError", NoFailure)
            /\ UNCHANGED <<spawns, formatted, child, drainer>>
       ELSE /\ spawns' = Append(spawns, Spawned(base_env', call))
            /\ formatted' = FormatConfigOverrides(call.config_overrides)
            /\ child' = "running"
            /\ drainer' = "running"
            /\ UNCHANGED <<aggPc, raised, failure>>
    /\ UNCHANGED <<cfg, call, nruns>>
    /\ UNCHANGED <<raw_lines, events, assistant_messages, reasoning, errors,
                   thread_id, usage, result, fed, delivered, exitCode, built>>

\* the caller, back in control, calls run again on the same client with
\* keyword arguments c; the call gets an aggregator of its own
RunAgain(c) ==
    /\ UNCHANGED <<wsVars, srvVars, modVars>>
    /\ aggPc \in {"done", "raised"}
    /\ nruns < MaxRuns
    /\ nruns' = nruns + 1
    /\ call' = c
    /\ formatted' = <<>>
    /\ child' = "none"
    /\ drainer' = "none"
    /\ UNCHANGED <<cfg, base_env, queries, spawns>>
    /\ delivered' = <<>>
    /\ failure' = NoFailure
    /\ exitCode' = NoExit
    /\ built' = NoBuilt
    /\ raw_lines' = <<>>
    /\ events' = <<>>
    /\ assistant_messages' = <<>>
    /\ reasoning' = <<>>
    /\ errors' = <<>>
    /\ thread_id' = NoThreadId
    /\ usage' = NoUsage
    /\ aggPc' = "reading"
    /\ raised' = "<none>"
    /\ result' = NoResultYet
    /\ fed' = <<>>

\* the child process exits
ChildExits ==
    /\ UNCHANGED <<wsVars, aggVars, srvVars, modVars>>
    /\ child = "running"
    /\ child' = "exited"
    /\ UNCHANGED <<cfg, base_env, call, queries, spawns, formatted, drainer, nruns>>

\* _drain_stream reaches the end of the child's standard error and returns
DrainEnds ==
    /\ UNCHANGED <<wsVars, aggVars, srvVars, modVars>>
    /\ drainer = "running"
    /\ drainer' = "finished"
    /\ UNCHANGED <<cfg, base_env, call, queries, spawns, formatted, child, nruns>>

AggNext ==
    \/ \E i \in 1..Len(Lines) : AddLine(i)
    \/ \E e \in Exits : AsResult(e[1], e[2])

\* the lines fed to an aggregator used on its own
SnapLines ==
    {i \in 1..Len(Lines) :
        Lines[i].text \in {"  ", "ts-abc", "am-Hello", "re-Thinking", "tc-1",
                           "err-secondary"}}

SnapNext ==
    \/ \E i \in SnapLines : AddLine(i)
    \/ \E st \in StderrTexts : TakeResult(st)

WsNext ==
    \E t \in Threads :
        \/ \E n \in Names, ra \in RegisterArgs : CallRegister(t, n, ra[1], ra[2])
        \/ \E n \in Names, ra \in RunArgs : CallRun(t, n, ra[1], ra[2], ra[3])
        \/ RegAcquire(t)
        \/ RegCheck(t)
        \/ RegInsert(t)
        \/ GetAcquire(t)
        \/ GetLookup(t)
        \/ AgentAcquire(t)
        \/ \E v \in ResultVals : InvokerReturn(t, v)
        \/ InvokerRaise(t)
        \/ \E ts \in {r \in Readings : r <= MaxClock} : AppendHistory(t, ts)
        \/ ReleaseReturn(t)

\* the thread that registers agents and runs prompts while the other
\* thread reads histories
Writer == "t1"
Reader == "t2"

HistNext ==
    \/ \E n \in Names : CallRegister(Writer, n, NoPath, FALSE)
    \/ \E n \in Names : CallRun(Writer, n, "hello", NoCwd, NoOptions)
    \/ \E n \in Names \cup {NoName} : CallHistory(Reader, n)
    \/ \E t \in {Writer, Reader} : RegAcquire(t)
    \/ \E t \in {Writer, Reader} : RegCheck(t)
    \/ \E t \in {Writer, Reader} : RegInsert(t)
    \/ \E t \in {Writer, Reader} : GetAcquire(t)
    \/ \E t \in {Writer, Reader} : GetLookup(t)
    \/ \E t \in {Writer, Reader} : AgentAcquire(t)
    \/ \E t \in {Writer, Reader}, v \in ResultVals : InvokerReturn(t, v)
    \/ \E t \in {Writer, Reader} : InvokerRaise(t)
    \/ \E t \in {Writer, Reader}, ts \in {r \in Readings : r <= MaxStamp} :
           AppendHistory(t, ts)
    \/ \E t \in {Writer, Reader} : ReleaseReturn(t)
    \/ \E t \in {Writer, Reader} : HistCopy(t)
    \/ \E t \in {Writer, Reader} : AgentsSnapshot(t)
    \/ \E t \in {Writer, Reader} : HistExtend(t)
    \/ \E t \in {Writer, Reader} : HistSortReturn(t)
    \/ \E t \in {Writer, Reader} : CallerClears(t)

\* the workspace, called by the threads
Spec == Init /\ [][WsNext]_vars

\* the workspace, its histories read by one thread while another runs prompts
SpecHist == Init /\ [][HistNext]_vars

\* the adapter serving requests while agents are registered
SpecMcp == Init /\ [][McpNext]_vars

\* the event aggregator, fed one stream
SpecAgg == Init /\ [][AggNext]_vars

\* an aggregator fed lines before and after its as_result is called
SpecSnap == Init /\ [][SnapNext]_vars

\* calls of run made one after the other on one client, from the login
\* check to the return, with the child and its streams
RunNext ==
    \/ \E rc \in ExitCodes : Start(rc)
    \/ \E i \in RunLines : AddLine(i)
    \/ \E e \in Exits : AsResult(e[1], e[2])
    \/ ChildExits
    \/ DrainEnds
    \/ \E c \in RunCalls : RunAgain(c)

\* a client of any configuration tried, about to run any call tried
RunStart == WsInit /\ AggInit /\ SrvInit /\ ModInit /\ RunInit(Configs, RunCalls)

SpecRun == RunStart /\ [][RunNext]_vars

\* the argument vector built for every combination of keyword arguments,
\* and built again for the same arguments
ArgsNext ==
    \/ Start(0)
    \/ aggPc = "reading" /\ child = "running" /\ AsResult("", 0)
    \/ RunAgain(call)

\* the module-level functions of codex_cli, called one after the other
SpecDefault == Init /\ [][ModNext]_vars

\* the default client, about to run any call of the argument sets tried
ArgsStart ==
    WsInit /\ AggInit /\ SrvInit /\ ModInit /\ RunInit({DefaultConfig}, ArgCalls)

SpecArgs == ArgsStart /\ [][ArgsNext]_vars

\* the calls of the workspace made by two threads, each with one choice of
\* arguments
LiveNext ==
    \E t \in Threads :
        \/ \E n \in Names : ncalls < MaxLiveCalls /\ CallRegister(t, n, NoPath, FALSE)
        \/ \E n \in Names : ncalls < MaxLiveCalls /\ CallRun(t, n, "hello", NoCwd, NoOptions)
        \/ \E n \in Names \cup {NoName} : CallHistory(t, n)
        \/ RegAcquire(t)
        \/ RegCheck(t)
        \/ RegInsert(t)
        \/ GetAcquire(t)
        \/ GetLookup(t)
        \/ AgentAcquire(t)
        \/ \E v \in ResultVals : InvokerReturn(t, v)
        \/ InvokerRaise(t)
        \/ AppendHistory(t, clock)
        \/ ReleaseReturn(t)
        \/ HistCopy(t)
        \/ AgentsSnapshot(t)
        \/ HistExtend(t)
        \/ HistSortReturn(t)

\* a thread enters a with block of the registry lock: register_agent,
\* get_agent, agents (the last one modelled with its whole block)
RegistryEnters(t) ==
    \/ RegAcquire(t)
    \/ GetAcquire(t)
    \/ AgentsSnapshot(t)

\* the steps a thread takes inside a with block of the registry lock
RegistrySteps(t) ==
    \/ RegCheck(t)
    \/ RegInsert(t)
    \/ GetLookup(t)

\* the workspace called by two threads.  A thread inside a with block of
\* the registry lock goes on; a thread waiting for the registry lock gets
\* it if the lock is free again and again (the other threads may call
\* without end).  Nothing is assumed of the process invoker, which may
\* never return, nor of the threads waiting for an agent's lock
SpecLive ==
    /\ Init
    /\ [][LiveNext]_vars
    /\ \A t \in Threads : WF_vars(RegistrySteps(t)) /\ SF_vars(RegistryEnters(t))

\* the process invoker called for thread t returns or raises
InvokerEnds(t) ==
    \/ \E v \in ResultVals : InvokerReturn(t, v)
    \/ InvokerRaise(t)

\* the steps of AgentSession.run after the invoker returned
AgentLeaves(t) ==
    \/ AppendHistory(t, clock)
    \/ ReleaseReturn(t)

\* the workspace called by two threads, with every call of the process
\* invoker ending: it returns or raises, the thread goes on to the end of
\* its with block, and a thread waiting for an agent's lock gets it if the
\* lock is free again and again
SpecInvoke ==
    /\ Init
    /\ [][LiveNext]_vars
    /\ \A t \in Threads :
           /\ WF_vars(InvokerEnds(t))
           /\ WF_vars(AgentLeaves(t))
           /\ SF_vars(AgentAcquire(t))

(***************************************************************************)
(* Properties of the workspace (checked under Spec)                        *)
(***************************************************************************)
\* the process invoker is executing for thread t
InFlight(t) == pc[t] = "as_inflight"

\* thread t is inside the with block of AgentSession.run
InCritical(t) == pc[t] \in {"as_inflight", "as_append", "as_unlock"}

\* thread t is back from a call of op that ended with status
Returned(t, op, status) ==
    pc[t] = "returned" /\ arg[t].op = op /\ loc[t].status = status

\* the positions of the records of invocation inv in the history of s
RecordsOf(s, inv) == {i \in DOMAIN sessHist[s] : sessHist[s][i].result.rid = inv}

\* C1: at most one invocation of the process invoker is in flight for any
\* agent at any time.
C1_OneInFlightPerAgent ==
    \A t, u \in Threads :
        InFlight(t) /\ InFlight(u) /\ loc[t].sess = loc[u].sess => t = u

C1_Witness ==
    \E t, u \in Threads :
        /\ InFlight(t)
        /\ pc[u] = "as_lock"
        /\ loc[u].sess = loc[t].sess

\* C2: while an invocation of an agent is in flight, every invocation that
\* took the agent's lock before it has left the with block, and the record
\* of each one whose invoker returned is in the agent's history; the records
\* of a history are in the order in which their invocations took the lock.
C2_SerializedInLockOrder ==
    /\ \A t \in Threads :
           InFlight(t) =>
               \A j \in 1..(loc[t].inv[2] - 1) :
                   LET s == loc[t].sess
                   IN /\ invLog[s][j] # "pending"
                      /\ ~\E u \in Threads : InCritical(u) /\ loc[u].inv = <<s, j>>
                      /\ invLog[s][j] = "returned" => RecordsOf(s, <<s, j>>) # {}
    /\ \A s \in Sessions :
           \A i, j \in DOMAIN sessHist[s] :
               i < j => /\ sessHist[s][i].result.rid[1] = s
                        /\ sessHist[s][j].result.rid[1] = s
                        /\ sessHist[s][i].result.rid[2] < sessHist[s][j].result.rid[2]

C2_Witness ==
    \E t, u \in Threads :
        /\ InFlight(t)
        /\ loc[t].inv = <<loc[t].sess, 2>>
        /\ Returned(u, "run", "ok")
        /\ loc[u].inv = <<loc[t].sess, 1>>
        /\ RecordsOf(loc[t].sess, loc[u].inv) = {1}

\* thread t waits for the lock of its agent
Blocked(t) == pc[t] = "as_lock" /\ ~AgentLockAvailable(loc[t].sess)

\* C3: an invocation waits for an agent's lock only while another
\* invocation of the same agent is inside the with block: invocations of
\* different agents never block each other (both in flight: C3_Witness).
C3_NoCrossAgentBlocking ==
    \A t \in Threads :
        Blocked(t) =>
            \E u \in Threads \ {t} : InCritical(u) /\ loc[u].sess = loc[t].sess

C3_Witness ==
    \E t, u \in Threads :
        /\ InFlight(t)
        /\ InFlight(u)
        /\ loc[t].sess # loc[u].sess
        /\ sessName[loc[t].sess] # sessName[loc[u].sess]

\* a step in which thread t executes the checks of register_agent
ChecksRegistration(t) == pc[t] = "reg_check" /\ pc'[t] # "reg_check"

\* C8: a register call whose name is registered when it is checked ends
\* with a registration-conflict and changes neither the registry nor any
\* session, history or directory; a conflict is only raised for a
\* registered name; a name's session is never replaced, and no two sessions
\* are ever created for one name, under every interleaving.
C8_DuplicateNameRejected ==
    [][ /\ \A t \in Threads :
               ChecksRegistration(t) /\ agents[arg[t].name] # NoSession =>
                   /\ pc'[t] = "returned"
                   /\ loc'[t].status = "conflict"
                   /\ UNCHANGED <<agents, sessName, sessWd, sessHist, agentLock,
                                  dirs, invLog>>
        /\ \A t \in Threads :
               ChecksRegistration(t) /\ pc'[t] = "returned"
                                     /\ loc'[t].status = "conflict" =>
                   agents[arg[t].name] # NoSession
        /\ \A n \in Names : agents[n] # NoSession => agents'[n] = agents[n]
        /\ \A n \in Names : agents'[n] # NoSession => sessName'[agents'[n]] = n
        /\ \A s1, s2 \in DOMAIN sessName' : sessName'[s1] = sessName'[s2] => s1 = s2
      ]_vars

C8_Witness ==
    \E t, u \in Threads :
        /\ Returned(t, "register", "ok")
        /\ Returned(u, "register", "conflict")
        /\ arg[t].name = arg[u].name
        /\ agents[arg[u].name] = loc[t].sess

\* path p is the project root or below it
UnderRoot(p) ==
    /\ Len(p) >= Len(ProjectRoot)
    /\ SubSeq(p, 1, Len(ProjectRoot)) = ProjectRoot

\* C9: the working directory of every registered agent is the project root
\* or below it, and so is every directory register_agent creates; a
\* register call whose relative path resolves outside the root fails (with
\* a path-escape error; with a registration-conflict when the name is
\* taken, which is checked first), adds no agent and creates no directory.
C9_WorkingDirectoryUnderRoot ==
    [][ /\ \A s \in DOMAIN sessWd' : UnderRoot(sessWd'[s])
        /\ \A d \in dirs' \ dirs : UnderRoot(d)
        /\ \A t \in Threads :
               /\ ChecksRegistration(t)
               /\ arg[t].rel # NoPath
               /\ ~UnderRoot(Resolve(JoinPath(ProjectRoot, arg[t].rel)))
               => /\ pc'[t] = "returned"
                  /\ loc'[t].status = IF agents[arg[t].name] # NoSession
                                      THEN "conflict" ELSE "escape"
                  /\ UNCHANGED <<agents, sessName, sessWd, sessHist, agentLock,
                                 dirs, invLog>>
      ]_vars

C9_Witness ==
    /\ \E t \in Threads : Returned(t, "register", "escape")
    /\ \E s \in Sessions : sessWd[s] = <<"proj", "team">>
    /\ dirs = {ProjectRoot, SymlinkTo, <<"proj", "team">>}

\* C10: a run appends a record exactly when the process invoker returns a
\* result: a run whose invoker raised ends with that error at its caller
\* and no record of it is in any history; a run that returned has exactly
\* one record, holding its prompt and the very result returned to its
\* caller; a history holds one record per returned invocation and no other.
C10_RecordIffInvokerReturns ==
    /\ \A t \in Threads :
           Returned(t, "run", "ok") =>
               /\ Cardinality(RecordsOf(loc[t].sess, loc[t].inv)) = 1
               /\ loc[t].result.rid = loc[t].inv
               /\ \A i \in RecordsOf(loc[t].sess, loc[t].inv) :
                      /\ sessHist[loc[t].sess][i].prompt = arg[t].prompt
                      /\ sessHist[loc[t].sess][i].result = loc[t].result
    /\ \A t \in Threads :
           Returned(t, "run", "raised") =>
               /\ invLog[loc[t].inv[1]][loc[t].inv[2]] = "raised"
               /\ \A s \in Sessions : RecordsOf(s, loc[t].inv) = {}
    /\ \A s \in Sessions :
           /\ \A j \in DOMAIN invLog[s] :
                  invLog[s][j] # "returned" => RecordsOf(s, <<s, j>>) = {}
           /\ Len(sessHist[s]) =
                  Cardinality({j \in DOMAIN invLog[s] : invLog[s][j] = "returned"})
                    - Cardinality({t \in Threads :
                                      pc[t] = "as_append" /\ loc[t].sess = s})

C10_Witness ==
    \E t, u \in Threads :
        /\ Returned(t, "run", "raised")
        /\ Returned(u, "run", "ok")
        /\ loc[t].sess = loc[u].sess
        /\ Len(sessHist[loc[t].sess]) = 1

\* a step in which thread t executes the lookup of get_agent
LooksUp(t) == pc[t] = "get_lookup" /\ pc'[t] # "get_lookup"

\* C11: a run whose agent name is not registered when it is looked up ends
\* with a not-found error at its caller, takes no agent lock and starts no
\* invocation, and changes neither the registry nor any session or history;
\* a not-found error is only raised for a name that is not registered.
C11_UnknownAgentNotFound ==
    [][ /\ \A t \in Threads :
               LooksUp(t) /\ agents[arg[t].name] = NoSession =>
                   /\ pc'[t] = "returned"
                   /\ loc'[t].status = "notfound"
                   /\ loc'[t].inv = NoInv
                   /\ regLock' # t
                   /\ UNCHANGED <<agents, sessName, sessWd, sessHist, agentLock,
                                  dirs, invLog>>
        /\ \A t \in Threads :
               LooksUp(t) /\ pc'[t] = "returned" =>
                   /\ loc'[t].status = "notfound"
                   /\ agents[arg[t].name] = NoSession
      ]_vars

C11_Witness ==
    \E t \in Threads :
        /\ Returned(t, "run", "notfound")
        /\ agents[arg[t].name] = NoSession
        /\ \E s \in Sessions : sessName[s] # arg[t].name

\* C12: the working directory handed to the process invoker is the agent's
\* own working directory when the caller of run supplied no cwd, and the
\* caller's cwd when it supplied one; the other keyword arguments are
\* handed over as the caller gave them.
C12_WorkingDirectoryDefaulted ==
    \A t \in Threads :
        InFlight(t) =>
            /\ arg[t].cwd = NoCwd => loc[t].cwd = sessWd[agents[arg[t].name]]
            /\ arg[t].cwd # NoCwd => loc[t].cwd = arg[t].cwd
            /\ loc[t].opts = arg[t].opts

C12_Witness ==
    \E t, u \in Threads :
        /\ InFlight(t) /\ arg[t].cwd = NoCwd /\ loc[t].cwd = <<"proj", "team">>
        /\ InFlight(u) /\ arg[u].cwd = <<"elsewhere">> /\ loc[u].cwd = <<"elsewhere">>
        /\ loc[u].opts = {<<"model", "o3">>}

(***************************************************************************)
(* Properties of history (checked under SpecHist)                          *)
(***************************************************************************)
\* the steps of history() without an agent name
SnapshotStep(t) == pc[t] = "hist_agents" /\ pc'[t] = "hist_extend"
ExtendStep(t) == pc[t] = "hist_extend" /\ pc'[t] = "hist_extend" /\ loc'[t] # loc[t]
SortStep(t) == pc[t] = "hist_extend" /\ pc'[t] = "returned"

\* the number of occurrences of r in list l
Occurrences(l, r) == Cardinality({i \in DOMAIN l : l[i] = r})

\* the records of session s in list l, in the order of l
RecordsOfSession(l, s) ==
    LET OfS(r) == r.result.rid[1] = s IN SelectSeq(l, OfS)

\* C13: history() without an agent name reads the list of every registered
\* agent, copies the whole history of each of them in turn, and returns the
\* records it copied, each exactly once, ordered by timestamp ascending,
\* records with equal timestamps in the order in which they were copied; so
\* the records of one agent are returned in their append order, as an
\* initial part of that agent's history.
C13_MergedHistorySortedStable ==
    [][ \A t \in Threads :
          /\ SnapshotStep(t) =>
                 /\ {loc'[t].snap[i] : i \in DOMAIN loc'[t].snap} = Sessions
                 /\ Len(loc'[t].snap) = Cardinality(Sessions)
          /\ ExtendStep(t) =>
                 loc'[t].runs = loc[t].runs \o sessHist[Head(loc[t].snap)]
          /\ SortStep(t) =>
                 LET res == loc'[t].ret.items
                     runs == loc[t].runs
                     At(r) == CHOOSE i \in DOMAIN runs : runs[i] = r
                 IN /\ loc'[t].ret.alias = NoSession
                    /\ Len(res) = Len(runs)
                    /\ \A i \in DOMAIN runs :
                           Occurrences(res, runs[i]) = 1 /\ Occurrences(runs, runs[i]) = 1
                    /\ \A i, j \in DOMAIN res :
                           i < j => /\ res[i].timestamp <= res[j].timestamp
                                    /\ res[i].timestamp = res[j].timestamp =>
                                           At(res[i]) < At(res[j])
                    /\ \A s \in Sessions :
                           LET mine == RecordsOfSession(res, s)
                           IN /\ Len(mine) <= Len(sessHist[s])
                              /\ mine = SubSeq(sessHist[s], 1, Len(mine))
      ]_vars

C13_Witness ==
    \E t \in Threads :
        /\ pc[t] = "returned" /\ arg[t].op = "history" /\ arg[t].name = NoName
        /\ Len(loc[t].ret.items) = 2
        /\ loc[t].ret.items[1].result.rid[1] = 2
        /\ loc[t].ret.items[2].result.rid[1] = 1
        /\ loc[t].ret.items[1].timestamp < loc[t].ret.items[2].timestamp

\* thread t holds the list a history(name) call returned to it
HoldsNamedHistory(t) ==
    /\ pc[t] = "returned" /\ pc'[t] = "returned"
    /\ arg[t].op = "history" /\ arg[t].name # NoName
    /\ loc[t].status = "ok"

\* a step taken by a thread other than t
OtherActs(t) == \E u \in Threads \ {t} : pc'[u] # pc[u] \/ loc'[u] # loc[u]

\* C14: history(name) returns the records of the agent registered under
\* name, all of them, in append order; while the caller holds the list, no
\* step of another thread changes what it reads in the list, and a change
\* the caller makes to the list changes no stored history.
C14_NamedHistorySnapshot ==
    [][ \A t \in Threads :
          /\ pc[t] = "hist_copy" /\ pc'[t] = "returned" =>
                 LET s == agents[arg[t].name]
                     got == ListOf(loc[t].ret)'
                 IN /\ got = sessHist[s]
                    /\ \A i \in DOMAIN got : got[i].result.rid[1] = s
                    /\ \A i, j \in DOMAIN got :
                           i < j => got[i].result.rid[2] < got[j].result.rid[2]
          /\ HoldsNamedHistory(t) =>
                 IF OtherActs(t)
                 THEN ListOf(loc[t].ret)' = ListOf(loc[t].ret)
                 ELSE UNCHANGED sessHist
      ]_vars

C14_Witness ==
    \E t \in Threads :
        /\ pc[t] = "returned" /\ arg[t].op = "history" /\ arg[t].name # NoName
        /\ loc[t].status = "ok"
        /\ Len(ListOf(loc[t].ret)) = 1
        /\ Len(sessHist[loc[t].sess]) = 2
        /\ ListOf(loc[t].ret)[1] = sessHist[loc[t].sess][1]

(***************************************************************************)
(* Properties of the protocol adapter (checked under SpecMcp)              *)
(***************************************************************************)
\* the non-blank lines read so far, in order
NonBlankIn ==
    LET NotBlank(i) == Requests[i].kind # "blank" IN SelectSeq(srvIn, NotBlank)

\* the request object of the k-th non-blank line read
RequestAt(k) == Requests[NonBlankIn[k]].val.o

\* field key of request object req, JNull when it has none
FieldOf(req, key) == IF key \in DOMAIN req THEN req[key] ELSE JNull

\* the method of req is one of the three the adapter supports
Supported(req) ==
    /\ FieldOf(req, "method").k = "str"
    /\ FieldOf(req, "method").s \in {"initialize", "tools/list", "tools/call"}

\* C15: the k-th response written answers the k-th non-blank line read: it
\* carries that request's id (null when the request has none) and exactly
\* one of a result field and an error field; the response to a request
\* whose method is not initialize, tools/list or tools/call has an error
\* field and no result field, the response to initialize and to tools/list
\* a result field.
C15_ResponseHasIdAndResultOrError ==
    /\ Len(srvOut) <= Len(NonBlankIn)
    /\ \A k \in DOMAIN srvOut :
           LET req == RequestAt(k)
               r == srvOut[k]
           IN /\ {"jsonrpc", "id"} \subseteq r.keys
              /\ r.id = FieldOf(req, "id")
              /\ ("result" \in r.keys) # ("error" \in r.keys)
              /\ ~Supported(req) => "error" \in r.keys /\ "result" \notin r.keys
              /\ Supported(req) /\ FieldOf(req, "method").s # "tools/call" =>
                     "result" \in r.keys

C15_Witness ==
    /\ Len(srvOut) = 2
    /\ srvOut[1].keys = {"jsonrpc", "id", "error"} /\ srvOut[1].id = JInt(3)
    /\ srvOut[2].keys = {"jsonrpc", "id", "result"} /\ srvOut[2].id = JStr("two")

\* the step in which the adapter answers the tool call it made
AnswersCall == srvPc = "calling" /\ srvPc' # "calling"

\* the response written in this step
Written == srvOut'[Len(srvOut')]

\* C16: when workspace.run returns a result to call_tool, the response
\* written is a result whose text is the result's last assistant message
\* (the empty text when it has none), whose isError flag is true exactly
\* when the result has errors, and whose metadata holds the error texts
\* exactly when there are errors and the three usage counters exactly when
\* the result has a usage.
C16_ToolPayloadFromResult ==
    [][ AnswersCall /\ loc[Server].status = "ok" =>
          LET v == loc[Server].result.val
              msgs == AssistantMessagesOf(v)
              p == Written.result.payload
          IN /\ Len(srvOut') = Len(srvOut) + 1
             /\ Written.keys = {"jsonrpc", "id", "result"}
             /\ agents[arg[Server].name] # NoSession
             /\ p.text = IF msgs = <<>> THEN "" ELSE msgs[Len(msgs)]
             /\ p.isError = (ErrorsOf(v) # <<>>)
             /\ ("errors" \in p.metaKeys) = (ErrorsOf(v) # <<>>)
             /\ "errors" \in p.metaKeys => p.metaErrors = ErrorsOf(v)
             /\ ("usage" \in p.metaKeys) = UsageOf(v).present
             /\ "usage" \in p.metaKeys =>
                    /\ p.metaUsage.input = UsageOf(v).input_tokens
                    /\ p.metaUsage.cached = UsageOf(v).cached_input_tokens
                    /\ p.metaUsage.output = UsageOf(v).output_tokens
      ]_vars

C16_Witness ==
    /\ Len(srvOut) = 2
    /\ srvOut[1].result.payload.text = "Done"
    /\ srvOut[1].result.payload.metaKeys = {"usage"}
    /\ srvOut[2].result.payload.isError
    /\ srvOut[2].result.payload.metaKeys = {"errors", "usage"}

\* the line read last, after this step
LastRead == Requests[srvIn'[Len(srvIn')]]

\* params.get("arguments") or {}, for params object ps
GivenArguments(ps) ==
    IF FieldOf(ps, "arguments").k = "null" THEN [x \in {} |-> JNull]
    ELSE FieldOf(ps, "arguments").o

\* the error of request object req that is found before the workspace is
\* called: its method, then its params, name and arguments, then the tool
\* and the types of agent and prompt (NoExc: none)
ExpectedFailure(req) ==
    LET ps == FieldOf(req, "params").o
    IN CASE ~Supported(req) -> Exc("ValueError", "Unsupported method")
         [] Supported(req) /\ FieldOf(req, "method").s # "tools/call" -> NoExc
         [] OTHER ->
            CASE FieldOf(req, "params").k # "obj" ->
                     Exc("ValueError", "tools/call requires params")
              [] OTHER ->
                 CASE FieldOf(ps, "name").k # "str" ->
                          Exc("ValueError", "Tool name must be a string")
                   [] FieldOf(ps, "name").k = "str"
                      /\ FieldOf(ps, "arguments").k \notin {"obj", "null"} ->
                          Exc("ValueError", "Tool arguments must be a mapping")
                   [] FieldOf(ps, "name").k = "str"
                      /\ FieldOf(ps, "arguments").k \in {"obj", "null"}
                      /\ FieldOf(ps, "name").s # "multiagent.run" ->
                          Exc("ValueError", "Unknown tool")
                   [] FieldOf(ps, "name").k = "str"
                      /\ FieldOf(ps, "arguments").k \in {"obj", "null"}
                      /\ FieldOf(ps, "name").s = "multiagent.run"
                      /\ \/ FieldOf(GivenArguments(ps), "agent").k # "str"
                         \/ FieldOf(GivenArguments(ps), "prompt").k # "str" ->
                          Exc("ValueError",
                              "Tool arguments must include 'agent' and 'prompt' strings")
                   [] OTHER -> NoExc

\* C17: handle_request raises nothing: serve_stdio is only ever left by an
\* exception at a line that is not a JSON object; the response to a request
\* object with an unsupported method, missing or ill-typed params, name or
\* arguments, an unknown tool, ill-typed agent or prompt, an unknown agent,
\* or whose run raised, is an error response with code -32000 and the text
\* of that exception as message; every other response has no error field.
C17_ErrorsBecomeResponses ==
    [][ /\ srvPc' = "raised" /\ srvPc # "raised" =>
               LastRead.kind # "json" \/ LastRead.val.k # "obj"
        /\ Len(srvOut') = Len(srvOut) + 1 =>
               LET req == LastRead.val.o
                   want == IF ~AnswersCall THEN ExpectedFailure(req)
                           ELSE IF loc[Server].status = "ok" THEN NoExc
                           ELSE RunError(loc[Server].status)
               IN IF want # NoExc
                  THEN /\ Written.keys = {"jsonrpc", "id", "error"}
                       /\ Written.id = FieldOf(req, "id")
                       /\ Written.error.code = -32000
                       /\ Written.error.message = StrOf(want)
                  ELSE "error" \notin Written.keys
        /\ AnswersCall =>
               /\ Len(srvOut') = Len(srvOut) + 1
               /\ loc[Server].status = "notfound" =>
                      Written.error.message = [quoted |-> TRUE, text |-> "Unknown agent"]
        /\ srvPc = "serving" /\ Len(srvIn') = Len(srvIn) + 1
           /\ LastRead.kind = "json" /\ LastRead.val.k = "obj" =>
               Len(srvOut') = Len(srvOut) + 1 \/ srvPc' = "calling"
      ]_vars

C17_Witness ==
    /\ srvPc = "serving"
    /\ Len(srvOut) = 2
    /\ srvOut[1].error = [code |-> -32000,
                          message |-> [quoted |-> TRUE, text |-> "Unknown agent"]]
    /\ srvOut[2].error = [code |-> -32000,
                          message |-> [quoted |-> FALSE, text |-> "codex exec failed"]]

\* C18: (the claim as stated) no line ends the serve loop, and every
\* non-blank line read has got exactly one response, written in the order
\* of the requests, once its request is handled.
C18_EveryLineAnswered ==
    /\ srvPc # "raised"
    /\ Len(srvOut) = Len(NonBlankIn) - (IF srvPc = "calling" THEN 1 ELSE 0)
    /\ \A k \in DOMAIN srvOut :
           Requests[NonBlankIn[k]].kind = "json"
           /\ Requests[NonBlankIn[k]].val.k = "obj"
           => srvOut[k].id = FieldOf(RequestAt(k), "id")

(***************************************************************************)
(* Properties of the event aggregator (checked under SpecAgg)              *)
(***************************************************************************)
\* the line with this text
LineIx(text) == CHOOSE i \in 1..Len(Lines) : Lines[i].text = text

\* the lines fed so far contain a, and later b
FedInOrder(a, b) ==
    \E i, j \in 1..Len(fed) : i < j /\ fed[i] = LineIx(a) /\ fed[j] = LineIx(b)

\* field key of a JSON value, when the value is an object that has it
HasField(v, key) == v.k = "obj" /\ key \in DOMAIN v.o

\* the line is an event {"type": ty, ...}
IsEventOfType(ln, ty) ==
    /\ ln.kind = "json"
    /\ HasField(ln.val, "type")
    /\ ln.val.o.type.k = "str"
    /\ ln.val.o.type.s = ty

\* the line is an item.completed event of item type ty carrying a text string
IsCompletedItem(ln, ty) ==
    /\ IsEventOfType(ln, "item.completed")
    /\ HasField(ln.val, "item")
    /\ HasField(ln.val.o.item, "details")
    /\ HasField(ln.val.o.item.o.details, "item_type")
    /\ HasField(ln.val.o.item.o.details, "text")
    /\ ln.val.o.item.o.details.o.item_type = [k |-> "str", s |-> ty]
    /\ ln.val.o.item.o.details.o.text.k = "str"

\* the texts of the item.completed events of item type ty among the lines
\* f, in arrival order
RECURSIVE CompletedTexts(_, _)
CompletedTexts(f, ty) ==
    IF f = <<>> THEN <<>>
    ELSE LET ln == Lines[Head(f)]
         IN (IF IsCompletedItem(ln, ty)
             THEN <<ln.val.o.item.o.details.o.text.s>> ELSE <<>>)
            \o CompletedTexts(Tail(f), ty)

\* C4: for every stream of lines that as_result is reached on, the result's
\* assistant-message list is exactly the texts of the item.completed events
\* of item type assistant_message, and its reasoning list exactly those of
\* item type reasoning, each in arrival order.
C4_ItemTextsInArrivalOrder ==
    aggPc = "done" =>
        /\ Result.assistant_messages = CompletedTexts(fed, "assistant_message")
        /\ Result.reasoning = CompletedTexts(fed, "reasoning")

C4_Witness ==
    /\ aggPc = "done"
    /\ FedInOrder("am-Bye", "am-Hello")
    /\ \E i \in 1..Len(fed) : fed[i] = LineIx("re-Thinking")
    /\ Result.assistant_messages = <<"Bye", "Hello">>
    /\ Result.reasoning = <<"Thinking">>

\* the error messages of the turn.failed and error events among the lines
\* f, in arrival order
RECURSIVE ErrorMessages(_)
ErrorMessages(f) ==
    IF f = <<>> THEN <<>>
    ELSE LET ln == Lines[Head(f)]
             here ==
                 IF /\ IsEventOfType(ln, "turn.failed")
                    /\ HasField(ln.val, "error")
                    /\ HasField(ln.val.o.error, "message")
                    /\ ln.val.o.error.o.message.k = "str"
                 THEN <<ln.val.o.error.o.message.s>>
                 ELSE IF /\ IsEventOfType(ln, "error")
                         /\ HasField(ln.val, "message")
                         /\ ln.val.o.message.k = "str"
                 THEN <<ln.val.o.message.s>>
                 ELSE <<>>
         IN here \o ErrorMessages(Tail(f))

\* C5: the result's error list is the messages of the turn.failed events
\* (error.message) and of the error events (message), in arrival order, and
\* succeeded is true exactly when there is no such message.
C5_ErrorsInArrivalOrder ==
    aggPc = "done" =>
        /\ Result.errors = ErrorMessages(fed)
        /\ Succeeded(Result.errors) <=> (ErrorMessages(fed) = <<>>)

C5_Witness ==
    /\ aggPc = "done"
    /\ FedInOrder("tf-failure", "err-secondary")
    /\ Result.errors = <<"failure", "secondary">>
    /\ ~Succeeded(Result.errors)

\* the line is a turn.completed event carrying a usage object
CarriesUsage(ln) ==
    /\ IsEventOfType(ln, "turn.completed")
    /\ HasField(ln.val, "usage")
    /\ ln.val.o.usage.k = "obj"

\* counter key of the usage object of the line: 0 when missing
CounterOf(ln, key) ==
    IF key \in DOMAIN ln.val.o.usage.o THEN ToInt(ln.val.o.usage.o[key]) ELSE 0

\* the usage the lines f leave: that of the last turn.completed event
\* carrying a usage object
RECURSIVE LastUsage(_)
LastUsage(f) ==
    IF f = <<>> THEN NoUsage
    ELSE LET ln == Lines[f[Len(f)]]
         IN IF CarriesUsage(ln)
            THEN [present |-> TRUE,
                  input_tokens |-> CounterOf(ln, "input_tokens"),
                  cached_input_tokens |-> CounterOf(ln, "cached_input_tokens"),
                  output_tokens |-> CounterOf(ln, "output_tokens")]
            ELSE LastUsage(SubSeq(f, 1, Len(f) - 1))

\* C6: the result's usage is absent when no turn.completed event carried a
\* usage object, and otherwise holds the counters of the last turn.completed
\* event that carried one (a missing counter reads as 0); its total is
\* input + cached-input + output.
C6_UsageIsLastTurnCompleted ==
    aggPc = "done" =>
        /\ Result.usage = LastUsage(fed)
        /\ Result.usage.present =>
               TotalTokens(Result.usage) =
                   LastUsage(fed).input_tokens + LastUsage(fed).cached_input_tokens
                       + LastUsage(fed).output_tokens

C6_Witness ==
    /\ aggPc = "done"
    /\ FedInOrder("tc-7-2-5", "tc-1")
    /\ Result.usage.present
    /\ Result.usage.input_tokens = 1
    /\ Result.usage.cached_input_tokens = 0
    /\ TotalTokens(Result.usage) = 1

\* the line is a thread.started event carrying a string thread_id
StartsThread(ln) ==
    /\ IsEventOfType(ln, "thread.started")
    /\ HasField(ln.val, "thread_id")
    /\ ln.val.o.thread_id.k = "str"

\* the thread_id of the first thread.started event among the lines f
RECURSIVE FirstThreadId(_)
FirstThreadId(f) ==
    IF f = <<>> THEN NoThreadId
    ELSE IF StartsThread(Lines[Head(f)]) THEN Lines[Head(f)].val.o.thread_id.s
    ELSE FirstThreadId(Tail(f))

\* the thread_id of the last thread.started event among the lines f
RECURSIVE LastThreadId(_)
LastThreadId(f) ==
    IF f = <<>> THEN NoThreadId
    ELSE IF StartsThread(Lines[f[Len(f)]]) THEN Lines[f[Len(f)]].val.o.thread_id.s
    ELSE LastThreadId(SubSeq(f, 1, Len(f) - 1))

\* C7 as stated: the result's session identifier is the thread_id of the
\* first thread.started event of the stream; no later event changes it.
C7_FirstThreadStartedWins ==
    aggPc = "done" => Result.thread_id = FirstThreadId(fed)

\* C7, amended: the result's session identifier is the thread_id of the
\* last thread.started event of the stream that carries a string thread_id
\* (absent when there is none): a later thread.started event replaces the
\* identifier captured before, no other event changes it.
C7_LastThreadStartedWins ==
    aggPc = "done" => Result.thread_id = LastThreadId(fed)

C7_Witness ==
    /\ aggPc = "done"
    /\ FedInOrder("ts-abc", "ts-xyz")
    /\ Len(fed) = 3
    /\ Lines[fed[3]].kind = "json"
    /\ Result.thread_id = "xyz"

\* the texts of the lines fed so far that json.loads decodes, in order
DecodedTexts ==
    LET Decodes(i) == Lines[i].kind = "json"
    IN [k \in DOMAIN SelectSeq(fed, Decodes) |-> Lines[SelectSeq(fed, Decodes)[k]].text]

\* C19: CodexCLI.run returns a result only when the child's exit status is
\* zero, and then even when the stream held error events (succeeded is
\* false exactly when it did); when the status is not zero no result is
\* returned: a CodexRunError is raised whose message names the status,
\* whose stderr is the captured diagnostic text and whose stdout holds the
\* raw text of every event aggregated.
C19_ResultOnlyOnZeroExit ==
    /\ aggPc = "done" =>
           /\ exitCode = 0
           /\ raised = "<none>" /\ failure = NoFailure
           /\ Succeeded(Result.errors) = (ErrorMessages(fed) = <<>>)
    /\ exitCode \notin {NoExit, 0} =>
           /\ aggPc = "raised"
           /\ raised = "CodexRunError"
           /\ failure.message = <<"codex exec exited with status", exitCode>>
           /\ failure.stderr = result.stderr
           /\ failure.stdout = DecodedTexts
    /\ exitCode = NoExit => aggPc # "done"

C19_Witness ==
    /\ aggPc = "raised"
    /\ exitCode = 1
    /\ failure.stderr = "boom"
    /\ failure.stdout = <<"am-Hello", "tf-failure">>
    /\ errors = <<"failure">>

\* the line given to add_line in this step
LineFed == Lines[fed'[Len(fed')]]

\* C20: a non-blank line that json.loads cannot decode ends the run: a
\* CodexRunError for an undecodable event is raised that carries the text
\* of that line as stdout; the line is added neither to the events nor to
\* the raw lines, nothing is passed to the callback for it, no result is
\* built, and after it no line is aggregated and no callback made.
C20_UndecodableLineAborts ==
    [][ /\ Len(fed') = Len(fed) + 1 /\ LineFed.kind = "garbage" =>
               /\ aggPc' = "raised"
               /\ raised' = "CodexRunError"
               /\ failure'.message = <<"Failed to decode JSON event emitted by codex exec">>
               /\ failure'.stdout = <<LineFed.text>>
               /\ result' = NoResultYet /\ exitCode' = NoExit
               /\ UNCHANGED <<raw_lines, events, assistant_messages, reasoning,
                              errors, thread_id, usage, delivered>>
        /\ aggPc = "raised" => UNCHANGED aggVars
        /\ \A i \in DOMAIN events' : events'[i] # JNull
      ]_vars

C20_Witness ==
    /\ aggPc = "raised"
    /\ Len(fed) = 2
    /\ Lines[fed[2]].kind = "garbage"
    /\ events = <<Lines[fed[1]].val>>
    /\ delivered = events
    /\ failure.stdout = <<"not json">>
    /\ result = NoResultYet

\* C22: with a callback supplied, the events passed to the callback are
\* the decoded events, each once and in arrival order; the callback is not
\* invoked for a blank line
C22_CallbackOncePerEvent ==
    aggPc # "raised" => delivered = events

\* C26: once as_result has built a result, feeding further lines changes
\* none of the result's events, assistant messages, reasoning and errors
C26_ResultNeverMutated ==
    built # NoBuilt =>
        /\ Result.events = built.events
        /\ Result.assistant_messages = built.assistant_messages
        /\ Result.reasoning = built.reasoning
        /\ Result.errors = built.errors

(***************************************************************************)
(* Properties of CodexCLI.run (checked under SpecRun)                      *)
(***************************************************************************)
\* run goes from its first statement to the error of the login check or to
\* the spawn of the child
Starts == child = "none" /\ aggPc = "reading" /\ (aggPc' = "raised" \/ child' = "running")

\* the "login status" command run in this step
LastQuery == queries'[Len(queries')]

\* C21: when the login check is required, run queries the login status once;
\* if the executable reports not authenticated (a non-zero exit status) run
\* raises the authentication error and no exec child is spawned, then or
\* later in that call; when the check is not required, no login-status query
\* is made and the child is spawned; a child is only ever spawned so
C21_LoginCheckedBeforeSpawn ==
    [][ /\ Starts =>
              IF call.require_login
              THEN /\ Len(queries') = Len(queries) + 1
                   /\ LastQuery.returncode # 0 =>
                          /\ aggPc' = "raised"
                          /\ raised' = "CodexLoginError"
                          /\ spawns' = spawns
                          /\ child' = "none"
                   /\ LastQuery.returncode = 0 =>
                          /\ aggPc' = "reading"
                          /\ Len(spawns') = Len(spawns) + 1
              ELSE /\ queries' = queries
                   /\ aggPc' = "reading"
                   /\ Len(spawns') = Len(spawns) + 1
        /\ (raised = "CodexLoginError" /\ nruns' = nruns) =>
              spawns' = spawns /\ child' = "none"
        /\ spawns' # spawns =>
              /\ Starts
              /\ call.require_login =>
                     Len(queries') = Len(queries) + 1 /\ LastQuery.returncode = 0
        /\ queries' # queries => Starts /\ call.require_login
      ]_vars

\* a first call, with the login check, was refused and spawned nothing; a
\* second call, without the check, has spawned its child with no further query
C21_Witness ==
    /\ nruns = 2
    /\ Len(queries) = 1
    /\ queries[1].returncode # 0
    /\ ~call.require_login
    /\ Len(spawns) = 1
    /\ child = "running"

\* the environment the spec describes for constructor arguments c and
\* per-call variables e: the per-call value of a key if it names the key,
\* else the client's configured value, else the inherited one
Layered(c, e) ==
    [k \in EnvKeys |->
        IF e.given /\ e.vars[k] # Unset THEN e.vars[k]
        ELSE IF k = "CODEX_HOME" /\ c.codex_home # NoStr THEN ExpandUser(c.codex_home)
        ELSE IF c.env.given /\ c.env.vars[k] # Unset THEN c.env.vars[k]
        ELSE OsEnviron[k]]

\* C25: the environment of every child spawned is the inherited environment
\* overridden by the client's configured variables and then by the
\* variables of the call that spawned it, and of that call only: the
\* variables of an earlier call are not in it
C25_ChildEnvironmentLayered ==
    \A i \in DOMAIN spawns : spawns[i].env = Layered(cfg, spawns[i].call.env)

\* a client configured with TOKEN and CODEX_HOME has spawned two children:
\* the first for a call that names both, the second for a call without env
C25_Witness ==
    /\ Len(spawns) = 2
    /\ cfg.codex_home # NoStr
    /\ spawns[1].call.env.given
    /\ spawns[1].env["TOKEN"] = "call"
    /\ spawns[1].env["CODEX_HOME"] = "/callhome"
    /\ spawns[1].env["PATH"] = "/bin"
    /\ spawns[2].call.env = NoEnv
    /\ spawns[2].env["TOKEN"] = "client"
    /\ spawns[2].env["CODEX_HOME"] = "/home/u/cx"

\* run has handed control back to its caller after it spawned the child
HandedBack == aggPc \in {"done", "raised"} /\ child # "none"

\* C27: whenever run has handed control back after the spawn, by a return
\* or by an error, the child has exited, the standard output was read to
\* its end and the thread draining the standard error has been joined
C27_ChildReapedBeforeControlReturns ==
    HandedBack =>
        /\ child = "exited"
        /\ exitCode # NoExit
        /\ drainer = "joined"

(***************************************************************************)
(* Properties of the argument vector (checked under SpecArgs)              *)
(***************************************************************************)
\* the flags of the argument vector, in the order the spec fixes
FlagOrder ==
    << "--image", "--model", "--oss", "--profile", "--full-auto",
       "--dangerously-bypass-approvals-and-sandbox", "--sandbox", "--cd",
       "--skip-git-repo-check", "--include-plan-tool", "--output-last-message",
       "--output-schema", "-c", "resume" >>
FlagNames == {FlagOrder[r] : r \in DOMAIN FlagOrder}
Rank(flag) == CHOOSE r \in DOMAIN FlagOrder : FlagOrder[r] = flag

\* the options that carry a value: flag, value supplied, text expected
\* after the flag
ValueOptions(c) ==
    { <<"--model", c.model, c.model>>,
      <<"--profile", c.config_profile, c.config_profile>>,
      <<"--sandbox", c.sandbox_mode, c.sandbox_mode>>,
      <<"--cd", c.cwd, "work">>,
      <<"--output-last-message", c.last_message_path, "last.txt">>,
      <<"--output-schema", c.output_schema, "schema.json">> }

\* the options that are switches: flag, switched on
Switches(c) ==
    { <<"--oss", c.oss>>, <<"--full-auto", c.full_auto>>,
      <<"--dangerously-bypass-approvals-and-sandbox", c.dangerously_bypass_approvals>>,
      <<"--skip-git-repo-check", c.skip_git_repo_check>>,
      <<"--include-plan-tool", c.include_plan_tool>> }

Supplied(value) == value \notin {NoStr, ""}
Resuming(c) == c.resume_last \/ Supplied(c.resume_session_id)
PositionsOf(a, token) == {i \in DOMAIN a : a[i] = token}
ImagesGiven(c) == IF c.images = NoImages THEN <<>> ELSE c.images

\* the child spawned last and the keyword arguments it was spawned for
LastSpawn == spawns[Len(spawns)]

\* C23: the argument vector is the executable, "exec" and the JSON-format
\* flag, then the flags of the supplied options (and of no other) in the
\* fixed order, each value option followed by its value, then the
\* config-override pairs, then, only when resuming, "resume" followed by
\* "--last" or by the session id ("--last" and no session id when both are
\* given), then the prompt as the last element; and children spawned for
\* equal keyword arguments get equal vectors
C23_ArgumentVectorOrder ==
    /\ \A i \in DOMAIN spawns, j \in DOMAIN spawns :
           spawns[i].call = spawns[j].call => spawns[i].args = spawns[j].args
    /\ child # "none" =>
         LET a == LastSpawn.args
             c == LastSpawn.call
             tail == IF Resuming(c) THEN 3 ELSE 1
             flagged == {i \in 4..(Len(a) - 1) : a[i] \in FlagNames}
         IN /\ c = call
            /\ SubSeq(a, 1, 3) = <<"codex", "exec", "--experimental-json">>
            /\ a[Len(a)] = c.prompt
            /\ \A i \in flagged, j \in flagged : i < j => Rank(a[i]) <= Rank(a[j])
            /\ \A o \in ValueOptions(c) :
                   IF Supplied(o[2])
                   THEN \E i \in 4..(Len(a) - 2) :
                            PositionsOf(a, o[1]) = {i} /\ a[i + 1] = o[3]
                   ELSE PositionsOf(a, o[1]) = {}
            /\ \A w \in Switches(c) :
                   Cardinality(PositionsOf(a, w[1])) = IF w[2] THEN 1 ELSE 0
            /\ Cardinality(PositionsOf(a, "--image")) = Len(ImagesGiven(c))
            /\ \A k \in DOMAIN ImagesGiven(c) :
                   a[3 + 2 * k - 1] = "--image"
                   /\ a[3 + 2 * k] = (IF ImagesGiven(c)[k] = "./out.txt" THEN "out.txt"
                                      ELSE ImagesGiven(c)[k])
            /\ SubSeq(a, Len(a) - tail - Len(formatted) + 1, Len(a) - tail) = formatted
            /\ Cardinality(PositionsOf(a, "-c")) * 2 = Len(formatted)
            /\ IF Resuming(c)
               THEN /\ PositionsOf(a, "resume") = {Len(a) - 2}
                    /\ a[Len(a) - 1] = (IF c.resume_last THEN "--last"
                                        ELSE c.resume_session_id)
                    /\ c.resume_last => PositionsOf(a, c.resume_session_id) = {}
               ELSE /\ PositionsOf(a, "resume") = {}
                    /\ PositionsOf(a, "--last") = {}
            /\ Len(a) = 3 + 2 * Len(ImagesGiven(c))
                          + 2 * Cardinality({o \in ValueOptions(c) : Supplied(o[2])})
                          + Cardinality({w \in Switches(c) : w[2]})
                          + Len(formatted) + tail

\* a second child has been spawned for the same keyword arguments: images,
\* a model, a working directory, switches, a mapping of overrides, and both
\* resume-last and a session id
C23_Witness ==
    /\ Len(spawns) = 2
    /\ child = "running"
    /\ call.images # NoImages
    /\ call.model = "o3"
    /\ call.cwd = "work/"
    /\ call.oss /\ call.include_plan_tool /\ ~call.full_auto
    /\ call.config_overrides.kind = "map"
    /\ Len(formatted) = 4
    /\ call.resume_last
    /\ call.resume_session_id = "sess-1"
    /\ LastSpawn.args[Len(LastSpawn.args) - 1] = "--last"

\* the text the spec gives for the entry of a mapping under each key tried
PairTexts ==
    [key \in {"model", "profile", "retries", "color", "approval"} |->
        IF key = "model" THEN "model=o4-mini"
        ELSE IF key = "profile" THEN "profile=default"
        ELSE IF key = "retries" THEN "retries=3"
        ELSE IF key = "color" THEN "color=True"
        ELSE "approval="]

\* C24: the formatted overrides hold, for a mapping, "-c" and "key=value"
\* for every entry in the mapping's order; for a list, "-c" and the entry
\* itself for every entry in list order; nothing for absent overrides; in
\* every case twice as many elements as there are entries
C24_OverridesFormattedInPairs ==
    child # "none" =>
        LET o == call.config_overrides
            n == Len(o.items)
        IN /\ Len(formatted) = 2 * n
           /\ o.kind = "none" => formatted = <<>>
           /\ \A i \in 1..n :
                  /\ formatted[2 * i - 1] = "-c"
                  /\ formatted[2 * i] = (IF o.kind = "map" THEN PairTexts[o.items[i].key]
                                         ELSE o.items[i].s)

\* the mapping of the spec's example has been formatted
C24_Witness ==
    /\ child = "running"
    /\ call.config_overrides =
           Mapping(<<Item("model", PyStr("o4-mini")), Item("profile", PyStr("default"))>>)
    /\ formatted = <<"-c", "model=o4-mini", "-c", "profile=default">>

(***************************************************************************)
(* Properties of add_line's frame (checked under SpecAgg)                  *)
(***************************************************************************)
\* the five event types add_line classifies
RecognizedTypes ==
    {"thread.started", "item.completed", "turn.completed", "turn.failed", "error"}
Recognized(ln) == \E ty \in RecognizedTypes : IsEventOfType(ln, ty)

\* the classified fields of the aggregator
Classified == <<assistant_messages, reasoning, errors, usage, thread_id>>

\* the number of lines fed so far that json.loads decoded
DecodedSoFar == Cardinality({i \in DOMAIN fed : Lines[fed[i]].kind = "json"})

\* C31: the raw event list is always as long as the number of decoded lines
\* fed so far.  A call of add_line with an empty or whitespace-only line
\* changes nothing of the aggregator; with a decoded object whose type is
\* none of the five recognized ones (or is missing) it appends the object to
\* the raw event list (and its text to the raw lines), raises nothing and
\* changes no classified field; and a call that changes a classified field
\* was given an event of one of the five recognized types.
C31_OnlyRecognizedTypesClassified ==
    /\ [](Len(events) = DecodedSoFar)
    /\ [][ fed' # fed =>
             /\ LineFed.kind = "blank" =>
                    /\ UNCHANGED <<raw_lines, events, Classified>>
                    /\ UNCHANGED <<aggPc, raised>>
             /\ (LineFed.kind = "json" /\ LineFed.val.k = "obj" /\ ~Recognized(LineFed)) =>
                    /\ events' = Append(events, LineFed.val)
                    /\ raw_lines' = Append(raw_lines, LineFed.text)
                    /\ UNCHANGED Classified
                    /\ UNCHANGED <<aggPc, raised>>
             /\ Classified' # Classified => Recognized(LineFed)
       ]_vars

\* a thread.started event, then a blank line, then an event of another type
\* carrying every field the classification reads: two raw events, and the
\* classified fields as the first event left them
C31_Witness ==
    /\ fed = <<LineIx("ts-abc"), LineIx("  "), LineIx("turn.started")>>
    /\ Len(events) = 2
    /\ thread_id = "abc"
    /\ assistant_messages = <<>> /\ reasoning = <<>> /\ errors = <<>>
    /\ usage = NoUsage
    /\ aggPc = "reading"

\* a counter int() does not convert
NonNumeric(v) ==
    /\ v.k \notin {"int", "float"}
    /\ ~(v.k = "str" /\ v.s \in DOMAIN NumericStrings)

\* the decoded value of the line has not the shape its type calls for: it
\* is no object, or an event of a recognized type whose thread_id, item,
\* details, text, usage, counter, error or message is missing or of
\* another kind than the classification reads
Malformed(ln) ==
    \/ ln.val.k # "obj"
    \/ /\ IsEventOfType(ln, "thread.started")
       /\ FieldOf(ln.val.o, "thread_id").k # "str"
    \/ /\ IsEventOfType(ln, "item.completed")
       /\ \/ FieldOf(ln.val.o, "item").k # "obj"
          \/ FieldOf(ln.val.o.item.o, "details").k # "obj"
          \/ FieldOf(ln.val.o.item.o.details.o, "text").k # "str"
    \/ /\ IsEventOfType(ln, "turn.completed")
       /\ \/ FieldOf(ln.val.o, "usage").k # "obj"
          \/ \E key \in DOMAIN ln.val.o.usage.o : NonNumeric(ln.val.o.usage.o[key])
    \/ /\ IsEventOfType(ln, "turn.failed")
       /\ \/ FieldOf(ln.val.o, "error").k # "obj"
          \/ FieldOf(ln.val.o.error.o, "message").k # "str"
    \/ /\ IsEventOfType(ln, "error")
       /\ FieldOf(ln.val.o, "message").k # "str"

\* C32: for every line that json.loads decodes, whatever the shape of the
\* decoded value and of its nested fields, add_line raises nothing and
\* appends the decoded value to the raw event list; and when the value has
\* not the shape its type calls for, no classified field changes.
C32_ClassificationFailsClosed ==
    [][ (fed' # fed /\ LineFed.kind = "json") =>
          /\ aggPc' # "raised"
          /\ events' = Append(events, LineFed.val)
          /\ Malformed(LineFed) => UNCHANGED Classified
      ]_vars

(***************************************************************************)
(* Properties of the adapter's frame (checked under SpecMcp)               *)
(***************************************************************************)
\* the responses written so far that are the result of a tool call naming
\* the agent of session s
ResultsFor(s) ==
    {k \in DOMAIN srvOut :
        /\ "result" \in srvOut[k].keys
        /\ srvOut[k].result.of = "tools/call"
        /\ agents[RequestAt(k).params.o.arguments.o.agent.s] = s}

\* between two requests, every history holds one record per result
\* response to a tool call naming its agent, and no other
HistoryMatchesResults ==
    srvPc # "calling" =>
        \A s \in Sessions : Len(sessHist[s]) = Cardinality(ResultsFor(s))

\* a step of the thread running serve_stdio
ServerActs == pc'[Server] # pc[Server] \/ srvIn' # srvIn \/ srvOut' # srvOut

\* C33: no step of the adapter changes the registry, and the only step of
\* the adapter that changes a history is the append of the run it asked
\* the workspace for; whenever the adapter is between two requests, every
\* agent's history holds exactly one record per result response to a tool
\* call naming that agent: so initialize, tools/list, unsupported methods
\* and tool calls answered with an error add no record, and a tool call
\* answered with a result adds one record to the named agent's history and
\* none to any other.
C33_AdapterHoldsNoState ==
    /\ []HistoryMatchesResults
    /\ [][ ServerActs =>
             /\ UNCHANGED <<agents, sessName, sessWd>>
             /\ sessHist' # sessHist =>
                    /\ srvPc = "calling" /\ pc[Server] = "as_append"
                    /\ UNCHANGED <<srvIn, srvOut>>
       ]_vars

\* a tool call naming an unknown agent was answered with an error, a tool
\* call naming alice with a result: one record, in the history of alice
C33_Witness ==
    /\ srvPc = "serving"
    /\ Len(srvOut) = 2
    /\ srvOut[1].id = JInt(12) /\ srvOut[1].keys = {"jsonrpc", "id", "error"}
    /\ srvOut[2].id = JInt(10) /\ srvOut[2].keys = {"jsonrpc", "id", "result"}
    /\ agents["alice"] # NoSession
    /\ Len(sessHist[agents["alice"]]) = 1
    /\ \A s \in Sessions : s # agents["alice"] => sessHist[s] = <<>>

(***************************************************************************)
(* Properties of the default client (checked under SpecDefault)            *)
(***************************************************************************)
ModuleHelpers == {"login_status", "login", "logout", "run"}

\* C28: after set_default_client(c) the default client is c, and get_client
\* returns the default client while there is one, creating none; every
\* module-level helper makes the client that get_client gives it receive
\* one call, of the matching operation with the caller's own arguments, and
\* returns what that call returned; after reset_default_client there is no
\* default client, and the next get_client (or helper) constructs a client
\* that was never seen before and makes it the default
C28_HelpersUseDefaultClient ==
    [][ nops' # nops =>
          LET r == returned'
              uses == r.op \in ModuleHelpers \cup {"get_client"}
          IN /\ r.op = "set_default_client" =>
                   /\ default_client' = r.args.client
                   /\ r.client = r.args.client
                   /\ received' = received /\ created' = created
             /\ r.op = "reset_default_client" =>
                   /\ default_client' = NoClient
                   /\ received' = received /\ created' = created
             /\ (uses /\ default_client # NoClient) =>
                   /\ r.client = default_client
                   /\ default_client' = default_client
                   /\ created' = created
             /\ (uses /\ default_client = NoClient /\ r.value # "<raised>") =>
                   /\ created' = created + 1
                   /\ r.client.by = "module"
                   /\ \A i \in DOMAIN received : received[i].client # r.client
                   /\ r.client \notin CallerClients
                   /\ default_client' = r.client
             /\ (uses /\ r.value = "<raised>") =>
                   /\ default_client = NoClient /\ default_client' = NoClient
                   /\ received' = received
             /\ r.op = "get_client" => received' = received
             /\ (r.op \in ModuleHelpers /\ r.value # "<raised>") =>
                   /\ Len(received') = Len(received) + 1
                   /\ SubSeq(received', 1, Len(received)) = received
                   /\ received'[Len(received')] =
                          [client |-> r.client, op |-> r.op, args |-> r.args,
                           result |-> r.value]
      ]_vars

\* a client was set and served a run with non-default arguments; after a
\* reset, a helper was served by a client get_client constructed, which
\* get_client then returned again
C28_Witness ==
    /\ Len(received) = 2
    /\ received[1].client \in CallerClients
    /\ received[1].op = "run"
    /\ received[1].args.model = "o3"
    /\ received[2].client = Client("module", 1)
    /\ received[2].op = "login_status"
    /\ returned.op = "get_client"
    /\ returned.client = Client("module", 1)
    /\ default_client = Client("module", 1)

(***************************************************************************)
(* Properties of the locks (checked under SpecLive)                        *)
(***************************************************************************)
\* the positions of a thread inside a with block of the registry lock
RegistryPcs == {"reg_check", "reg_insert", "get_lookup"}
\* the positions of a thread waiting for the registry lock, or inside it
RegistryCallPcs == RegistryPcs \cup {"reg_lock", "get_lock", "hist_agents"}
\* the positions of a thread holding an agent's lock
AgentPcs == {"as_inflight", "as_append", "as_unlock"}

\* no thread holds the registry lock while it holds or waits for an agent's
\* lock, or while its invocation is in flight
NoNestedLocks ==
    \A t \in Threads :
        regLock = t =>
            /\ pc[t] \in RegistryPcs
            /\ \A s \in Sessions : agentLock[s] # t

\* every lock a thread waits for is held by a thread that is inside the
\* with block of that lock and waits for no lock
NoWaitCycle ==
    \A t \in Threads :
        /\ (pc[t] \in {"reg_lock", "get_lock", "hist_agents"} /\ regLock # NoThread)
               => (regLock # t /\ pc[regLock] \in RegistryPcs)
        /\ (pc[t] = "as_lock" /\ ~AgentLockAvailable(loc[t].sess))
               => LET h == agentLock[LockOf(loc[t].sess)]
                  IN h # t /\ pc[h] \in AgentPcs /\ loc[h].sess = loc[t].sess

\* C29: no thread ever holds the registry lock while it holds or waits for
\* an agent's lock, and no thread holds it while its invocation is in
\* flight; no reachable state of register, lookup, run and history calls is
\* a deadlock (every lock waited for is held by a thread that waits for no
\* lock); and with invocations in flight that may never return, every
\* thread that waits for the registry lock or holds it leaves its
\* registration, lookup or listing
C29_RegistryLockNeverNested ==
    /\ []NoNestedLocks
    /\ []NoWaitCycle
    /\ \A t \in Threads :
           (pc[t] \in RegistryCallPcs) ~> (pc[t] \notin RegistryCallPcs)

\* one thread's invocation is in flight while the other thread, whose
\* registration began after it, holds the registry lock and inserts
C29_Witness ==
    \E t \in Threads, u \in Threads :
        /\ t # u
        /\ pc[t] = "as_inflight"
        /\ regLock = u
        /\ pc[u] = "reg_insert"
        /\ agentLock[LockOf(loc[t].sess)] = t

(***************************************************************************)
(* Properties of the agent locks (checked under SpecInvoke)                *)
(***************************************************************************)
\* an agent's lock is held only by a thread inside the with block of that
\* agent's run: a thread whose run has ended, by return or by error, holds
\* no agent's lock
LocksReleased ==
    \A s \in Sessions, t \in Threads :
        agentLock[LockOf(s)] = t => pc[t] \in AgentPcs /\ LockOf(loc[t].sess) = LockOf(s)

\* C34: a thread holds an agent's lock only while it is inside the with
\* block of that agent's run, so the lock is released when the invocation
\* ends, whether the invoker returned or raised; and, every call of the
\* invoker ending, every thread that waits for an agent's lock acquires it.
C34_AgentLockAlwaysReleased ==
    /\ []LocksReleased
    /\ \A t \in Threads : (pc[t] = "as_lock") ~> (pc[t] = "as_inflight")

\* the invocation of one thread failed; the other thread's invocation for
\* the same agent, which took the lock after it, is in flight
C34_Witness ==
    \E t \in Threads, u \in Threads :
        /\ t # u
        /\ Returned(u, "run", "raised")
        /\ pc[t] = "as_inflight"
        /\ loc[t].sess = loc[u].sess
        /\ invLog[loc[t].sess] = <<"raised", "pending">>
        /\ agentLock[LockOf(loc[t].sess)] = t

(***************************************************************************)
(* Properties of the stored histories (checked under SpecHist)             *)
(***************************************************************************)
IsPrefix(a, b) == Len(a) <= Len(b) /\ SubSeq(b, 1, Len(a)) = a

\* a call history(name) of thread t returns the list of a registered agent
ReturnsNamedHistory(t) ==
    /\ pc[t] = "hist_copy"
    /\ pc'[t] = "returned"

\* C30: an agent's history is append-only.  In every step, the stored
\* history of every session is a prefix of what it is after the step, no
\* session disappears, every registered name keeps its session, and the
\* list a call history(name) returns is the stored history of that moment:
\* so of two histories observed of an agent the earlier is a prefix of the
\* later, and no operation removes, reorders or replaces a record
C30_HistoryAppendOnly ==
    [][ /\ \A s \in Sessions :
              /\ s \in DOMAIN sessHist'
              /\ IsPrefix(sessHist[s], sessHist'[s])
              /\ sessName'[s] = sessName[s]
        /\ \A n \in Names : agents[n] # NoSession => agents'[n] = agents[n]
        /\ \A t \in Threads :
              ReturnsNamedHistory(t) =>
                  /\ ListOf(loc[t].ret)' = sessHist[loc[t].sess]
                  /\ IsPrefix(ListOf(loc[t].ret)', sessHist'[loc[t].sess])
      ]_vars

\* a caller holds the history it observed of an agent, of one record, and
\* the stored history has since grown to two records
C30_Witness ==
    \E t \in Threads :
        /\ pc[t] = "returned"
        /\ arg[t].op = "history"
        /\ arg[t].name # NoName
        /\ loc[t].status = "ok"
        /\ Len(ListOf(loc[t].ret)) = 1
        /\ Len(sessHist[loc[t].sess]) = 2
        /\ IsPrefix(ListOf(loc[t].ret), sessHist[loc[t].sess])

====
